---- MODULE Spec2Model ----
(***************************************************************************)
(* Model of the chess "wrapped" backend: the ChessService of               *)
(* src/src/services/chess.service.ts (game ingestion, the per-user cache   *)
(* of the game log and of the computed report, the section analyzers and   *)
(* the report composer) and the requests the controller issues against it. *)
(*                                                                         *)
(* Scheduling: Node runs one handler at a time; a handler gives up control *)
(* only at an upstream request (axios).  The awaits on getCachedData and   *)
(* setCachedData resume in the same turn of the event loop, so the code    *)
(* between two upstream requests is one uninterrupted run.  The clock      *)
(* (Date.now) still advances during such a run.                            *)
(***************************************************************************)
EXTENDS Integers, Sequences, FiniteSets, TLC

VARIABLES
    cache,      \* ChessService.cache: lower-cased username -> CachedData
    now,        \* Date.now(), in milliseconds
    req,        \* the requests in flight, one per handler slot
    captured,   \* history: per cache key, when the cached log left ingestion
    run         \* a run of the report composer on a game log of its own

vars == <<cache, now, req, captured, run>>

(***************************************************************************)
(* Bounds of the model.                                                    *)
(***************************************************************************)
MaxTicks == 3
MaxComputeMs == 1
MaxDrift == 1

\* Two handler slots: two clients asking for the same player, each with its
\* own spelling of the name.
Procs == {1, 2}

(***************************************************************************)
(* Values.  null / undefined is the empty sequence, a present value v is   *)
(* <<v>>; a missing string is "" (both are falsy in JavaScript).           *)
(***************************************************************************)
Null == <<>>
Some(v) == <<v>>

CACHE_DURATION == 5 * 60 * 1000

\* Between two events the clock advances by half the TTL; during a run of
\* the analyzers it advances by the milliseconds the run takes.
TickMs == CACHE_DURATION \div 2

Formats == <<"rapid", "blitz", "bullet">>
FormatSet == {"rapid", "blitz", "bullet"}

\* String.prototype.toLowerCase on the user names of the model.
ToLowerCase(s) ==
    CASE s = "Ann" -> "ann"
      [] s = "ANN" -> "ann"
      [] s = "Bob" -> "bob"
      [] s = "Cat" -> "cat"
      [] OTHER -> s

Usernames == {"Ann", "ann"}
UsernameOf(p) == IF p = 1 THEN "Ann" ELSE "ann"
Apis == {"wrapped", "ratings", "stats"}
\* The first client uses every route, the second the full report only.
ApisOf(p) == IF p = 1 THEN Apis ELSE {"wrapped"}

(***************************************************************************)
(* Sequence helpers (Array.prototype.filter / slice / sort).               *)
(***************************************************************************)
FilterSeq(s, Keep(_)) == SelectSeq(s, Keep)

MapSeq(s, F(_)) == [i \in 1..Len(s) |-> F(s[i])]

\* arr.slice(0, n)
SliceTo(s, n) == IF Len(s) <= n THEN s ELSE SubSeq(s, 1, n)

\* arr.slice(-n)
SliceLast(s, n) == IF Len(s) <= n THEN s ELSE SubSeq(s, Len(s) - n + 1, Len(s))

\* Insert x into the sorted sequence s before the first element that compares
\* greater than x, so after every element equal to it.
InsertSorted(x, s, Cmp(_, _)) ==
    LET later == {i \in 1..Len(s) : Cmp(s[i], x) > 0}
        k == IF later = {} THEN Len(s) + 1
             ELSE CHOOSE i \in later : \A j \in later : i <= j
    IN  SubSeq(s, 1, k - 1) \o <<x>> \o SubSeq(s, k, Len(s))

\* arr.sort(cmp): cmp(a, b) < 0 puts a first; Array.prototype.sort is stable,
\* so elements that compare equal keep their order.
ArraySort(s, Cmp(_, _)) ==
    LET F[i \in 0..Len(s)] ==
            IF i = 0 THEN <<>> ELSE InsertSorted(s[i], F[i - 1], Cmp)
    IN  F[Len(s)]

\* Math.ceil in the place of Math.round.
RoundPctUp(n, d) == (100 * n + d - 1) \div d

\* Math.round(100 * n / d) for n >= 0, d > 0: round half up.
RoundPct(n, d) == (200 * n + d) \div (2 * d)

(***************************************************************************)
(* Upstream data.  A raw record is what an archive of the chess.com API    *)
(* holds for one game; any field the code defends against may be missing.  *)
(* The PGN is kept as what the code's regular expressions read from it:    *)
(* the number of move numbers, the ECO tag and the last segment of the     *)
(* ECOUrl tag ("" when the tag is missing).                                *)
(***************************************************************************)
Day0 == 19723 * 86400          \* 2024-01-01T00:00:00Z, in seconds

NoPgn == [moves |-> 0, eco |-> "", ecoUrl |-> ""]

Side(u, r, res) == [username |-> u, rating |-> r, result |-> res]

RawGame(tc, w, b, t, id) ==
    [time_class |-> tc, white |-> w, black |-> b, accuracies |-> Null,
     eco |-> "", opening |-> "", url |-> id, end_time |-> Day0 + t,
     rules |-> "chess", pgn |-> Some(NoPgn)]

\* Three well-formed games of the subject "ann" (one stored out of order in
\* its archive), and three records the normalizer has to drop.
RawA == [RawGame("rapid", Side("Ann", Some(1520), "win"),
                 Side("Bob", Some(1490), "resigned"), 90000, "g2")
           EXCEPT !.pgn = Some([moves |-> 30, eco |-> "B20",
                                ecoUrl |-> "Sicilian-Defense"]),
                  !.accuracies = Some([white |-> 91, black |-> 80])]
RawB == RawGame("blitz", Side("Cat", Some(1600), "win"),
                Side("ann", Null, "checkmated"), 3600, "g1")
RawC == [RawGame("blitz", Side("Bob", Some(1495), "agreed"),
                 Side("Ann", Some(1510), "agreed"), 90000, "g3")
           EXCEPT !.rules = "", !.pgn = Null]
RawDaily == RawGame("daily", Side("Ann", Some(1400), "win"),
                    Side("Bob", Some(1300), "resigned"), 7200, "g4")
RawNoName == RawGame("rapid", Side("Ann", Some(1500), "win"),
                     Side("", Some(1300), "resigned"), 1800, "g5")
RawNoResult == RawGame("bullet", Side("Ann", Some(1500), ""),
                       Side("Bob", Some(1300), "win"), 900, "g6")

\* The bodies an archive request may answer with: {games: [...]}, or a body
\* without a games field.
ArchiveBodies ==
    { Some(<<RawA, RawDaily, RawB>>),
      Some(<<RawNoName, RawC, RawNoResult>>),
      Null }

\* Archive URLs, by the year and month in their path.
Archive(y, m) == [year |-> y, month |-> m]

ArchiveLists ==
    { <<Archive(2023, 11), Archive(2023, 12)>>,
      <<Archive(2023, 12), Archive(2024, 1), Archive(2024, 2)>> }

\* url.includes('/2024/')
Includes2024(archive) == archive.year = 2024

(***************************************************************************)
(* getGames: the normalizer (filter, map) of one archive body.             *)
(***************************************************************************)
\* x || d for a possibly missing string
OrString(x, d) == IF x = "" THEN d ELSE x

\* x || 0 for a possibly missing rating
OrZero(x) == IF x = Null THEN 0 ELSE x[1]

IsValidGame(game) ==
    /\ game.time_class # ""
    /\ game.time_class \in FormatSet
    /\ game.white.username # ""
    /\ game.black.username # ""
    /\ game.white.result # ""
    /\ game.black.result # ""

NormalizeGame(game) ==
    [time_class |-> game.time_class,
     white |-> [username |-> game.white.username,
                rating |-> OrZero(game.white.rating),
                result |-> game.white.result],
     black |-> [username |-> game.black.username,
                rating |-> OrZero(game.black.rating),
                result |-> game.black.result],
     accuracies |-> game.accuracies,
     eco |-> OrString(game.eco, "Unknown"),
     opening |-> OrString(game.opening, "Unknown Opening"),
     url |-> game.url,
     end_time |-> game.end_time,
     rules |-> game.rules,
     pgn |-> IF game.pgn = Null THEN NoPgn ELSE game.pgn[1]]

ValidGames(body) ==
    IF body = Null THEN <<>>
    ELSE MapSeq(FilterSeq(body[1], IsValidGame), NormalizeGame)

\* A sort that leaves the array as it is.
SortGamesSkipped(allGames) == allGames

\* (a, b) => a.end_time - b.end_time
ByEndTime(a, b) == a.end_time - b.end_time

SortGames(allGames) == ArraySort(allGames, ByEndTime)

(***************************************************************************)
(* Dates.  new Date(end_time * 1000).toISOString().split('T')[0] is the    *)
(* UTC calendar day of the game; a day is kept as its number since         *)
(* 1970-01-01, which orders and subtracts as the ISO strings do, and the   *)
(* empty string '' is EmptyDate.  The games are games of 2024, and the     *)
(* server's time zone is UTC (getMonth, getHours, getDay).                 *)
(***************************************************************************)
EmptyDate == 0

DateOf(game) == game.end_time \div 86400

Jan1 == Day0 \div 86400

\* Days of 2024 before each month (and before 2025).
DaysBefore == <<0, 31, 60, 91, 121, 152, 182, 213, 244, 274, 305, 335, 366>>

\* date.substring(0, 7) and getMonth() + 1: the month, 1..12, of a day of 2024.
MonthOf(date) ==
    CHOOSE m \in 1..12 :
        DaysBefore[m] <= date - Jan1 /\ date - Jan1 < DaysBefore[m + 1]

\* A Map<string, number> filled by map.set(k, (map.get(k) || 0) + 1) over
\* keys, as the sequence of its entries in insertion order.
Tally(keys) ==
    LET F[i \in 0..Len(keys)] ==
            IF i = 0 THEN <<>>
            ELSE LET prev == F[i - 1]
                     pos == {j \in 1..Len(prev) : prev[j].key = keys[i]}
                 IN  IF pos = {} THEN Append(prev, [key |-> keys[i], count |-> 1])
                     ELSE [prev EXCEPT ![CHOOSE j \in pos : TRUE].count = @ + 1]
    IN  F[Len(keys)]

\* map.get(k) || 0
TallyGet(tally, k) ==
    LET pos == {j \in 1..Len(tally) : tally[j].key = k}
    IN  IF pos = {} THEN 0 ELSE tally[CHOOSE j \in pos : TRUE].count

IsWhite(game, username) ==
    ToLowerCase(game.white.username) = ToLowerCase(username)

PlayerResult(game, username) ==
    IF IsWhite(game, username) THEN game.white.result ELSE game.black.result

\* A rating read off the white side whatever side the subject played.
PlayerRatingOfWhite(game, username) == game.white.rating

PlayerRating(game, username) ==
    IF IsWhite(game, username) THEN game.white.rating ELSE game.black.rating

Opponent(game, username) ==
    IF IsWhite(game, username) THEN game.black.username ELSE game.white.username

OpponentRating(game, username) ==
    IF IsWhite(game, username) THEN game.black.rating ELSE game.white.rating

GamesOf(games, format) == FilterSeq(games, LAMBDA g : g.time_class = format)

(***************************************************************************)
(* calculateWinRate                                                        *)
(***************************************************************************)
CalculateWinRate(games, username) ==
    IF Len(games) = 0 THEN 0
    ELSE LET wins == Len(FilterSeq(games,
                         LAMBDA g : PlayerResult(g, username) = "win"))
         IN  RoundPct(wins, Len(games))

(***************************************************************************)
(* generateIntroStats                                                      *)
(***************************************************************************)
EmptyStreak == [startDate |-> EmptyDate, endDate |-> EmptyDate,
                days |-> 0, gamesPlayed |-> 0]
EmptyBreak == [startDate |-> EmptyDate, endDate |-> EmptyDate, days |-> 0]

\* (a, b) => b[1] - a[1] over the entries of a tally
ByCountDesc(a, b) == b.count - a.count

\* A break that counts both of the days around it.
BreakDaysInclusive(daysDiff) == daysDiff + 1

\* daysDiff - 1: the days without a game between two play days
BreakDays(daysDiff) == daysDiff - 1

\* The loop of lines 466-498 over the sorted play days, from its state
\* before day i to its state after it.
StreakStep(st, dates, gamesByDate, i) ==
    LET daysDiff == dates[i] - dates[i - 1] IN
    IF daysDiff = 1
    THEN LET cs == st.currentStreak + 1
             csg == st.currentStreakGames + TallyGet(gamesByDate, dates[i])
         IN  [st EXCEPT !.currentStreak = cs,
                        !.currentStreakGames = csg,
                        !.longestStreak =
                            IF cs > st.longestStreak.days
                            THEN [startDate |-> st.streakStart, endDate |-> dates[i],
                                  days |-> cs + 1, gamesPlayed |-> csg]
                            ELSE @]
    ELSE [st EXCEPT !.currentStreak = 0,
                    !.currentStreakGames = TallyGet(gamesByDate, dates[i]),
                    !.streakStart = dates[i],
                    !.longestBreak =
                        IF BreakDays(daysDiff) > st.longestBreak.days
                        THEN [startDate |-> dates[i - 1], endDate |-> dates[i],
                              days |-> BreakDays(daysDiff)]
                        ELSE @]

StreaksAndBreaks(gamesByDate) ==
    LET dates == ArraySort(MapSeq(gamesByDate, LAMBDA e : e.key),
                           LAMBDA a, b : a - b)
        F[i \in 1..Len(dates)] ==
            IF i = 1
            THEN [currentStreak |-> 0,
                  currentStreakGames |-> TallyGet(gamesByDate, dates[1]),
                  streakStart |-> dates[1],
                  longestStreak |-> EmptyStreak, longestBreak |-> EmptyBreak]
            ELSE StreakStep(F[i - 1], dates, gamesByDate, i)
    IN  IF Len(dates) > 0 THEN F[Len(dates)]
        ELSE [longestStreak |-> EmptyStreak, longestBreak |-> EmptyBreak]

\* The reduce of lines 502-512 over rapid, blitz, bullet.
FavoriteFormat(games, username, formatBreakdown) ==
    LET F[i \in 0..Len(Formats)] ==
            IF i = 0 THEN [format |-> "blitz", gamesPlayed |-> 0, winRate |-> 0]
            ELSE LET max == F[i - 1] IN
                 IF formatBreakdown[Formats[i]].count > max.gamesPlayed
                 THEN [format |-> Formats[i],
                       gamesPlayed |-> formatBreakdown[Formats[i]].count,
                       winRate |-> CalculateWinRate(GamesOf(games, Formats[i]),
                                                    username)]
                 ELSE max
    IN  F[Len(Formats)]

\* The forEach of lines 445-449: the first day with the largest count.
MostGamesInDay(gamesByDate) ==
    LET F[i \in 0..Len(gamesByDate)] ==
            IF i = 0 THEN [date |-> EmptyDate, count |-> 0]
            ELSE LET most == F[i - 1] IN
                 IF gamesByDate[i].count > most.count
                 THEN [date |-> gamesByDate[i].key, count |-> gamesByDate[i].count]
                 ELSE most
    IN  F[Len(gamesByDate)]

GenerateIntroStats(games, username) ==
    IF Len(games) = 0
    THEN [totalGames |-> 0,
          formatBreakdown |-> [f \in FormatSet |-> [count |-> 0, percentage |-> 0]],
          mostGamesInDay |-> [date |-> EmptyDate, count |-> 0],
          activeMonths |-> [most |-> <<[month |-> 0, gamesPlayed |-> 0]>>,
                            least |-> <<[month |-> 0, gamesPlayed |-> 0]>>],
          favoriteFormat |-> [format |-> "blitz", gamesPlayed |-> 0, winRate |-> 0],
          longestStreak |-> EmptyStreak,
          longestBreak |-> EmptyBreak]
    ELSE
    LET totalGames == Len(games)
        formatBreakdown ==
            [f \in FormatSet |->
                [count |-> Len(GamesOf(games, f)),
                 percentage |-> RoundPct(Len(GamesOf(games, f)), totalGames)]]
        gamesByDate == Tally(MapSeq(games, DateOf))
        gamesByMonth == Tally(MapSeq(games, LAMBDA g : MonthOf(DateOf(g))))
        sortedMonths ==
            MapSeq(ArraySort(gamesByMonth, ByCountDesc),
                   LAMBDA e : [month |-> e.key, gamesPlayed |-> e.count])
        streaks == StreaksAndBreaks(gamesByDate)
    IN  [totalGames |-> totalGames,
         formatBreakdown |-> formatBreakdown,
         mostGamesInDay |-> MostGamesInDay(gamesByDate),
         activeMonths |-> [most |-> SliceTo(sortedMonths, 3),
                           least |-> SliceLast(sortedMonths, 3)],
         favoriteFormat |-> FavoriteFormat(games, username, formatBreakdown),
         longestStreak |-> streaks.longestStreak,
         longestBreak |-> streaks.longestBreak]

(***************************************************************************)
(* generateRatingStats                                                     *)
(***************************************************************************)
\* dailyRatingChanges.get(date) || 0
DailyGet(daily, date) == IF date \in DOMAIN daily THEN daily[date] ELSE 0

\* A peak that a later game with the same rating takes over.
PeakAfterLatest(peak, currentRating, date) ==
    IF peak = Null \/ currentRating >= peak[1].rating
    THEN Some([rating |-> currentRating, date |-> date])
    ELSE peak

\* Lines 606-609: the peak after a game with this rating on this date.
PeakAfter(peak, currentRating, date) ==
    IF peak = Null \/ currentRating > peak[1].rating
    THEN Some([rating |-> currentRating, date |-> date])
    ELSE peak

\* The body of timeControlGames.forEach (lines 590-640) on game number index
\* (from 1), from the loop's state st to its state after the game.
RatingStep(st, game, index, timeControl, username) ==
    LET currentRating == PlayerRating(game, username)
        date == DateOf(game)
        prevRating == IF index = 1 THEN currentRating ELSE st.prevRating
        ratingChange == currentRating - prevRating
        change == DailyGet(st.daily, date) + ratingChange
        maxGain == IF change > st.maxGainInDay THEN change ELSE st.maxGainInDay
        gainDate == IF change > st.maxGainInDay THEN date ELSE st.bestGainDate
        maxLoss == IF change < st.maxLossInDay THEN change ELSE st.maxLossInDay
        lossDate == IF change < st.maxLossInDay THEN date ELSE st.worstLossDate
    IN  [progress |-> Append(st.progress, [date |-> date, rating |-> currentRating]),
         current |-> Some(currentRating),
         peak |-> PeakAfter(st.peak, currentRating, date),
         daily |-> [d \in DOMAIN st.daily \cup {date} |->
                        IF d = date THEN change ELSE st.daily[d]],
         maxGainInDay |-> maxGain,
         maxLossInDay |-> maxLoss,
         bestGainDate |-> gainDate,
         worstLossDate |-> lossDate,
         bestRatingDay |-> IF maxGain > st.bestRatingDay.gain
                           THEN [date |-> gainDate, format |-> timeControl,
                                 gain |-> maxGain]
                           ELSE st.bestRatingDay,
         prevRating |-> currentRating]

\* One turn of the loop over the time controls (lines 579-660), given the
\* best rating day so far.
RatingsOfFormat(games, username, timeControl, bestRatingDay) ==
    LET tcGames == GamesOf(games, timeControl)
        start == [progress |-> <<>>, current |-> Null, peak |-> Null,
                  daily |-> [d \in {} |-> 0],
                  maxGainInDay |-> 0, maxLossInDay |-> 0,
                  bestGainDate |-> EmptyDate, worstLossDate |-> EmptyDate,
                  bestRatingDay |-> bestRatingDay, prevRating |-> 0]
        F[i \in 0..Len(tcGames)] ==
            IF i = 0 THEN start
            ELSE RatingStep(F[i - 1], tcGames[i], i, timeControl, username)
        end == F[Len(tcGames)]
    IN  [currentRating |-> end.current,
         ratingProgress |-> ArraySort(end.progress, LAMBDA a, b : a.date - b.date),
         peakRating |-> end.peak,
         bestRatingGain |->
            IF end.bestGainDate # EmptyDate
            THEN Some([date |-> end.bestGainDate, gain |-> end.maxGainInDay])
            ELSE Null,
         worstRatingLoss |->
            IF end.worstLossDate # EmptyDate
            THEN Some([date |-> end.worstLossDate,
                       loss |-> IF end.maxLossInDay < 0 THEN -end.maxLossInDay
                                ELSE end.maxLossInDay])
            ELSE Null,
         bestRatingDay |-> end.bestRatingDay]

GenerateRatingStats(games, username) ==
    LET F[i \in 0..Len(Formats)] ==
            IF i = 0
            THEN [bestRatingDay |-> [date |-> EmptyDate, format |-> "blitz", gain |-> 0],
                  by |-> [f \in {} |-> Null]]
            ELSE LET prev == F[i - 1]
                     one == RatingsOfFormat(games, username, Formats[i],
                                            prev.bestRatingDay)
                 IN  [bestRatingDay |-> one.bestRatingDay,
                      by |-> [f \in DOMAIN prev.by \cup {Formats[i]} |->
                                 IF f = Formats[i] THEN one ELSE prev.by[f]]]
        all == F[Len(Formats)]
    IN  [currentRatings |-> [f \in FormatSet |-> all.by[f].currentRating],
         ratingProgress |-> [f \in FormatSet |-> all.by[f].ratingProgress],
         bestRatingGains |-> [f \in FormatSet |-> all.by[f].bestRatingGain],
         worstRatingLosses |-> [f \in FormatSet |-> all.by[f].worstRatingLoss],
         bestRatingDay |-> all.bestRatingDay,
         peakRatings |-> [f \in FormatSet |-> all.by[f].peakRating],
         metadata |->
            [firstGameDate |-> IF Len(games) > 0 THEN Some(DateOf(games[1])) ELSE Null,
             lastGameDate |-> IF Len(games) > 0 THEN Some(DateOf(games[Len(games)]))
                              ELSE Null,
             totalGamesAnalyzed |-> Len(games)]]

(***************************************************************************)
(* generateFormatSpecificStats                                             *)
(***************************************************************************)
\* An eligibility that takes a share of exactly 10% too.
IsFormatEligibleFromTenth(games, format) ==
    LET n == Len(GamesOf(games, format))
    IN  n >= 15 \/ (Len(games) > 0 /\ 10 * n >= Len(games))

\* formatGames.length >= 15 || (formatGames.length / totalGames) > 0.1; with no
\* game at all the quotient is NaN, and NaN > 0.1 is false.
IsFormatEligible(games, format) ==
    LET n == Len(GamesOf(games, format))
    IN  n >= 15 \/ (Len(games) > 0 /\ 10 * n > Len(games))

\* resultCode.includes(word), resultCode being the game's rules field: the
\* variant played ("chess", "chess960", ...) or '' when it is missing.
RulesInclude(rules, word) ==
    <<rules, word>> \in {<<"drawn by agreement", "drawn">>,
                         <<"drawn by agreement", "agreement">>}

\* The first of words that resultCode includes, "" when it includes none
\* (the if / else-if chains of lines 731-757).
FirstIncluded(rules, words) ==
    LET hits == {i \in 1..Len(words) : RulesInclude(rules, words[i])}
    IN  IF hits = {} THEN ""
        ELSE words[CHOOSE i \in hits : \A j \in hits : i <= j]

WinLossWords == <<"resignation", "time", "checkmate">>
DrawWords == <<"agreement", "repetition", "stalemate", "insufficient">>

\* Which of wins, draws, losses a game is counted in (lines 728-759).
ResultClass(game, username) ==
    LET playerResult == PlayerResult(game, username) IN
    IF playerResult = "win" THEN "wins"
    ELSE IF playerResult \in {"repetition", "stalemate", "insufficient"}
            \/ RulesInclude(game.rules, "drawn")
         THEN "draws"
         ELSE "losses"

\* A class's counters: its total and, by reason, the games whose rules field
\* includes the reason's word first.
ClassCounters(formatGames, username, class, words) ==
    LET inClass == FilterSeq(formatGames,
                             LAMBDA g : ResultClass(g, username) = class)
    IN  [total |-> Len(inClass),
         by |-> [w \in {words[i] : i \in 1..Len(words)} |->
                    Len(FilterSeq(inClass,
                            LAMBDA g : FirstIncluded(g.rules, words) = w))]]

GameRef(game, username) ==
    [opponent |-> Opponent(game, username),
     opponentRating |-> OpponentRating(game, username),
     date |-> DateOf(game),
     url |-> game.url]

\* Lines 770-784 over the format's games: the best win and the worst loss.
BestAndWorst(formatGames, username) ==
    LET F[i \in 0..Len(formatGames)] ==
            IF i = 0 THEN [bestWin |-> Null, worstLoss |-> Null]
            ELSE LET g == formatGames[i]
                     res == PlayerResult(g, username)
                     prev == F[i - 1]
                 IN  IF res = "win"
                        /\ (prev.bestWin = Null
                            \/ OpponentRating(g, username) > prev.bestWin[1].opponentRating)
                     THEN [prev EXCEPT !.bestWin = Some(GameRef(g, username))]
                     ELSE IF res = "loss"
                             /\ (prev.worstLoss = Null
                                 \/ OpponentRating(g, username)
                                        < prev.worstLoss[1].opponentRating)
                     THEN [prev EXCEPT !.worstLoss = Some(GameRef(g, username))]
                     ELSE prev
    IN  F[Len(formatGames)]

\* Math.round(n / d) for n >= 0, d > 0
RoundDiv(n, d) == (2 * n + d) \div (2 * d)

\* game.pgn.match(/\d+\./g)?.length || 0, times 2 minutes
EstimatedDuration(game) == game.pgn.moves * 2

SumSeq(s) ==
    LET F[i \in 0..Len(s)] == IF i = 0 THEN 0 ELSE F[i - 1] + s[i]
    IN  F[Len(s)]

\* processOpenings of lines 798-806 over a Map nothing was put into.
FormatOpenings(openings) ==
    ArraySort(MapSeq(openings,
                     LAMBDA o : [name |-> o.name, count |-> o.count,
                                 winRate |-> RoundPct(o.wins, o.count)]),
              ByCountDesc)

FormatStats(formatGames, username) ==
    LET bw == BestAndWorst(formatGames, username)
        wins == Len(FilterSeq(formatGames,
                              LAMBDA g : PlayerResult(g, username) = "win"))
    IN  [gamesPlayed |-> Len(formatGames),
         winRate |-> RoundPct(wins, Len(formatGames)),
         ratingProgress |->
            ArraySort(MapSeq(formatGames,
                             LAMBDA g : [date |-> DateOf(g),
                                         rating |-> PlayerRating(g, username)]),
                      LAMBDA a, b : a.date - b.date),
         openings |-> [asWhite |-> FormatOpenings(<<>>),
                       asBlack |-> FormatOpenings(<<>>)],
         results |->
            [wins |-> ClassCounters(formatGames, username, "wins", WinLossWords),
             draws |-> ClassCounters(formatGames, username, "draws", DrawWords),
             losses |-> ClassCounters(formatGames, username, "losses", WinLossWords)],
         averageGameDuration |->
            RoundDiv(SumSeq(MapSeq(formatGames, EstimatedDuration)), Len(formatGames)),
         bestWin |-> bw.bestWin,
         worstLoss |-> bw.worstLoss]

\* The formats the forEach of line 689 makes a section for.
EligibleFormats(games) == {f \in FormatSet : IsFormatEligible(games, f)}

\* The map has a key for each eligible format only.
GenerateFormatSpecificStats(games, username) ==
    [f \in EligibleFormats(games) |-> FormatStats(GamesOf(games, f), username)]

(***************************************************************************)
(* generatePlayingPatternStats                                             *)
(***************************************************************************)
\* A JavaScript number that may be NaN.
Num(n) == [nan |-> FALSE, val |-> n]
NaN == [nan |-> TRUE, val |-> 0]

\* Math.round(n / d) for n >= 0, d >= 0; 0 / 0 is NaN.  (n > 0 with d = 0 does
\* not occur: both count the same games.)
JsRoundDiv(n, d) == IF d = 0 THEN NaN ELSE Num(RoundDiv(n, d))

HourOf(game) == (game.end_time % 86400) \div 3600

TimeSlots == <<"morning", "afternoon", "evening", "night">>

TimeSlotOf(game) ==
    LET hour == HourOf(game) IN
    IF hour >= 5 /\ hour < 12 THEN "morning"
    ELSE IF hour >= 12 /\ hour < 17 THEN "afternoon"
    ELSE IF hour >= 17 /\ hour < 22 THEN "evening"
    ELSE "night"

\* The keys of dayOfWeek in the order Object.entries walks them.
WeekDays == <<"monday", "tuesday", "wednesday", "thursday", "friday",
              "saturday", "sunday">>

\* days[gameDate.getDay()]; 1970-01-01 was a Thursday.
WeekDayOf(game) ==
    <<"sunday", "monday", "tuesday", "wednesday", "thursday", "friday",
      "saturday">>[((DateOf(game) + 4) % 7) + 1]

\* The games and wins of one bucket and, as lines 906-907 set it, its win rate.
Bucket(games, username, In(_)) ==
    LET mine == FilterSeq(games, In)
        wins == Len(FilterSeq(mine, LAMBDA g : PlayerResult(g, username) = "win"))
    IN  [games |-> Len(mine),
         winRate |-> IF Len(mine) > 0 THEN RoundPct(wins, Len(mine)) ELSE 0]

\* Lines 902-913 and 916-927: the first bucket, in the order of names, whose
\* win rate exceeds that of every bucket before it, among those of 5 games or
\* more; first when there is none.
BestBucket(names, buckets, first) ==
    LET F[i \in 0..Len(names)] ==
            IF i = 0 THEN [best |-> first, rate |-> 0]
            ELSE LET prev == F[i - 1] IN
                 IF buckets[names[i]].games > 0
                    /\ buckets[names[i]].winRate > prev.rate
                    /\ buckets[names[i]].games >= 5
                 THEN [best |-> names[i], rate |-> buckets[names[i]].winRate]
                 ELSE prev
    IN  F[Len(names)].best

LongestGame(games, username) ==
    LET F[i \in 0..Len(games)] ==
            IF i = 0
            THEN [opponent |-> "", date |-> EmptyDate, format |-> "",
                  result |-> "", duration |-> 0, url |-> ""]
            ELSE LET longest == F[i - 1] IN
                 IF EstimatedDuration(games[i]) > longest.duration
                 THEN [opponent |-> Opponent(games[i], username),
                       date |-> DateOf(games[i]),
                       format |-> games[i].time_class,
                       result |-> PlayerResult(games[i], username),
                       duration |-> EstimatedDuration(games[i]),
                       url |-> games[i].url]
                 ELSE longest
    IN  F[Len(games)]

GeneratePlayingPatternStats(games, username) ==
    LET timeOfDay == [t \in {TimeSlots[i] : i \in 1..Len(TimeSlots)} |->
                         Bucket(games, username, LAMBDA g : TimeSlotOf(g) = t)]
        dayOfWeek == [d \in {WeekDays[i] : i \in 1..Len(WeekDays)} |->
                         Bucket(games, username, LAMBDA g : WeekDayOf(g) = d)]
        uniqueDays == {DateOf(games[i]) : i \in 1..Len(games)}
        totalPlayingTime == SumSeq(MapSeq(games, EstimatedDuration))
    IN  [timeOfDay |-> [buckets |-> timeOfDay,
                        bestTimeToPlay |-> BestBucket(TimeSlots, timeOfDay, "morning")],
         dayOfWeek |-> [buckets |-> dayOfWeek,
                        bestDayToPlay |-> BestBucket(WeekDays, dayOfWeek, "monday")],
         averageGamesPerDay |-> JsRoundDiv(Len(games), Cardinality(uniqueDays)),
         totalPlayingTime |-> totalPlayingTime,
         averageGameDuration |-> JsRoundDiv(totalPlayingTime, Len(games)),
         longestGame |-> LongestGame(games, username)]

(***************************************************************************)
(* generateOpeningStats                                                    *)
(***************************************************************************)
\* urlParts[urlParts.length - 1].replace(/-/g, ' ') on the last segment of
\* the ECOUrl tag.
SlugToName(slug) ==
    CASE slug = "Sicilian-Defense" -> "Sicilian Defense"
      [] slug = "Kings-Pawn-Opening" -> "Kings Pawn Opening"
      [] slug = "English-Opening" -> "English Opening"
      [] slug = "French-Defense" -> "French Defense"
      [] OTHER -> slug

\* `${eco} - ${openingName}`: a string is kept as the pieces it is joined from.
FullOpeningName(game) ==
    <<IF game.pgn.eco # "" THEN game.pgn.eco ELSE "Unknown",
      " - ",
      IF game.pgn.ecoUrl # "" THEN SlugToName(game.pgn.ecoUrl) ELSE "Unknown">>

\* openingsByColor[color] after the forEach of lines 962-996: the entries of
\* the Map in insertion order.
OpeningsOfColor(games, username, white) ==
    LET mine == FilterSeq(games, LAMBDA g : IsWhite(g, username) = white)
        F[i \in 0..Len(mine)] ==
            IF i = 0 THEN <<>>
            ELSE LET prev == F[i - 1]
                     name == FullOpeningName(mine[i])
                     won == IF PlayerResult(mine[i], username) = "win" THEN 1 ELSE 0
                     pos == {j \in 1..Len(prev) : prev[j].name = name}
                 IN  IF pos = {}
                     THEN Append(prev, [name |-> name, count |-> 1, wins |-> won])
                     ELSE [prev EXCEPT ![CHOOSE j \in pos : TRUE] =
                              [@ EXCEPT !.count = @ + 1, !.wins = @ + won]]
    IN  F[Len(mine)]

\* A ranking that takes the openings played once too.
ProcessOpeningsPlayedOnce(openings, totalGames) ==
    ArraySort(
        MapSeq(openings,
               LAMBDA o : [name |-> o.name, count |-> o.count,
                           winRate |-> RoundPct(o.wins, o.count),
                           percentage |-> RoundPct(o.count, totalGames)]),
        ByCountDesc)

ProcessOpenings(openings, totalGames) ==
    ArraySort(
        MapSeq(FilterSeq(openings, LAMBDA o : o.count >= 2),
               LAMBDA o : [name |-> o.name, count |-> o.count,
                           winRate |-> RoundPct(o.wins, o.count),
                           percentage |-> RoundPct(o.count, totalGames)]),
        ByCountDesc)

NoOpenings == <<[name |-> <<"No openings recorded">>, count |-> 0,
                 winRate |-> 0, percentage |-> 0]>>

\* The rankings without the sentinel of the empty case.
TopAndWorstOpeningsBare(openings) ==
    [topOpenings |-> SliceTo(openings, 3), worstOpenings |-> SliceTo(openings, 3)]

\* processTopOpenings then processWorstOpenings on the same array: the first
\* sorts the array in place, so the second starts from that order.
TopAndWorstOpenings(openings) ==
    IF Len(openings) > 0
    THEN LET byRate == ArraySort(openings, LAMBDA a, b : b.winRate - a.winRate)
         IN  [topOpenings |-> SliceTo(byRate, 3),
              worstOpenings |->
                 SliceTo(ArraySort(FilterSeq(byRate, LAMBDA o : o.count >= 2),
                                   LAMBDA a, b : a.winRate - b.winRate), 3)]
    ELSE [topOpenings |-> NoOpenings, worstOpenings |-> NoOpenings]

GenerateOpeningStats(games, username) ==
    [byColor |->
        [asWhite |-> TopAndWorstOpenings(
                        ProcessOpenings(OpeningsOfColor(games, username, TRUE),
                                        Len(games))),
         asBlack |-> TopAndWorstOpenings(
                        ProcessOpenings(OpeningsOfColor(games, username, FALSE),
                                        Len(games)))]]

(***************************************************************************)
(* generateOpponentStats                                                   *)
(***************************************************************************)
\* opponentStats after the forEach of lines 1069-1089, as the entries of the
\* Map in insertion order.
OpponentTable(games, username) ==
    LET F[i \in 0..Len(games)] ==
            IF i = 0 THEN <<>>
            ELSE LET prev == F[i - 1]
                     g == games[i]
                     res == PlayerResult(g, username)
                     pos == {j \in 1..Len(prev) : prev[j].username = Opponent(g, username)}
                     old == IF pos = {}
                            THEN [username |-> Opponent(g, username), games |-> 0,
                                  wins |-> 0, losses |-> 0,
                                  opponentRating |-> OpponentRating(g, username),
                                  format |-> g.time_class]
                            ELSE prev[CHOOSE j \in pos : TRUE]
                     stats == [old EXCEPT
                                 !.games = @ + 1,
                                 !.wins = IF res = "win" THEN @ + 1 ELSE @,
                                 !.losses = IF res # "win" /\ res # "draw"
                                            THEN @ + 1 ELSE @,
                                 !.opponentRating = OpponentRating(g, username)]
                 IN  IF pos = {} THEN Append(prev, stats)
                     ELSE [prev EXCEPT ![CHOOSE j \in pos : TRUE] = stats]
    IN  F[Len(games)]

ProcessOpponents(opponents, totalGames) ==
    MapSeq(opponents,
           LAMBDA o : [username |-> o.username, games |-> o.games,
                       winRate |-> RoundPct(o.wins, o.games),
                       lossRate |-> RoundPct(o.losses, o.games),
                       opponentRating |-> o.opponentRating,
                       percentage |-> RoundPct(o.games, totalGames)])

ProcessPerformance(opponents) ==
    MapSeq(opponents,
           LAMBDA o : [username |-> o.username, games |-> o.games,
                       winRate |-> RoundPct(o.wins, o.games),
                       lossRate |-> RoundPct(o.losses, o.games),
                       opponentRating |-> o.opponentRating,
                       minGames |-> 1])

DefaultOpponent ==
    [username |-> "No opponents found", games |-> 0, winRate |-> 0,
     lossRate |-> 0, opponentRating |-> 0, percentage |-> 0]

DefaultPerformance ==
    [username |-> "No opponents found", games |-> 0, winRate |-> 0,
     lossRate |-> 0, opponentRating |-> 0, minGames |-> 1]

\* The comparators; the quotients are compared exactly, by cross product.
ByGamesDesc(a, b) == b.games - a.games
ByWinRatioDesc(a, b) == b.wins * a.games - a.wins * b.games
ByLossRatioDesc(a, b) == b.losses * a.games - a.losses * b.games
\* (b.losses / b.games) - (a.losses / b.games), of line 1200
ByLossesOverOwnGamesDesc(a, b) == b.losses - a.losses

\* Lines 1143-1159: each sort reorders sortedOpponents itself, so each ranking
\* starts from the order the one before it left.
OverallRankings(sortedOpponents, totalGames) ==
    LET byGames == ArraySort(sortedOpponents, ByGamesDesc)
        byWins == ArraySort(byGames, ByWinRatioDesc)
        byLosses == ArraySort(byWins, ByLossRatioDesc)
    IN  [mostPlayed |-> ProcessOpponents(SliceTo(byGames, 3), totalGames),
         bestPerformance |-> ProcessPerformance(SliceTo(byWins, 3)),
         worstPerformance |-> ProcessPerformance(SliceTo(byLosses, 3)),
         sortedOpponents |-> byLosses]

\* Lines 1181-1211 for one format, sortedOpponents being as the overall
\* rankings left it.
FormatRankings(sortedOpponents, format, totalGames) ==
    LET formatOpponents == FilterSeq(sortedOpponents, LAMBDA o : o.format = format)
        byGames == ArraySort(formatOpponents, ByGamesDesc)
        byWins == ArraySort(byGames, ByWinRatioDesc)
        byLosses == ArraySort(byWins, ByLossesOverOwnGamesDesc)
    IN  IF Len(formatOpponents) > 0
        THEN [mostPlayed |-> ProcessOpponents(SliceTo(byGames, 3), totalGames),
              bestPerformance |-> ProcessPerformance(SliceTo(byWins, 3)),
              worstPerformance |-> ProcessPerformance(SliceTo(byLosses, 3))]
        ELSE [mostPlayed |-> <<DefaultOpponent>>,
              bestPerformance |-> <<DefaultPerformance>>,
              worstPerformance |-> <<DefaultPerformance>>]

GenerateOpponentStats(games, username) ==
    LET sortedOpponents == FilterSeq(OpponentTable(games, username),
                                     LAMBDA o : o.games >= 1)
        overall == OverallRankings(sortedOpponents, Len(games))
    IN  [overall |->
            [mostPlayed |-> IF Len(overall.mostPlayed) > 0 THEN overall.mostPlayed
                            ELSE <<DefaultOpponent>>,
             bestPerformance |-> IF Len(overall.bestPerformance) > 0
                                 THEN overall.bestPerformance
                                 ELSE <<DefaultPerformance>>,
             worstPerformance |-> IF Len(overall.worstPerformance) > 0
                                  THEN overall.worstPerformance
                                  ELSE <<DefaultPerformance>>],
         byFormat |-> [f \in FormatSet |->
                          FormatRankings(overall.sortedOpponents, f, Len(games))]]

(***************************************************************************)
(* generatePerformanceStats                                                *)
(***************************************************************************)
\* The subject's accuracy in a game, 0 when the game carries none (a missing
\* and a zero accuracy are both skipped by `if (accuracy)`).
AccuracyOf(game, username) ==
    IF game.accuracies = Null THEN 0
    ELSE IF IsWhite(game, username) THEN game.accuracies[1].white
         ELSE game.accuracies[1].black

\* Math.round((total / count) * 100) / 100, in hundredths; null under 3 samples.
AverageAccuracy(games, username) ==
    LET with == FilterSeq(games, LAMBDA g : AccuracyOf(g, username) # 0)
        total == SumSeq(MapSeq(with, LAMBDA g : AccuracyOf(g, username)))
    IN  IF Len(with) >= 3 THEN Some(RoundPct(total, Len(with))) ELSE Null

GeneratePerformanceStats(games, username) ==
    [accuracy |->
        [overall |-> AverageAccuracy(games, username),
         byFormat |-> [f \in FormatSet |->
                          AverageAccuracy(GamesOf(games, f), username)]]]

(***************************************************************************)
(* generateMonthlyGames: a month is its number, 1..12; 'None' is 0.        *)
(***************************************************************************)
GenerateMonthlyGames(games) ==
    LET InMonth(m) == FilterSeq(games, LAMBDA g : MonthOf(DateOf(g)) = m)
        distribution ==
            [m \in 1..12 |->
                [month |-> m,
                 rapid |-> Len(GamesOf(InMonth(m), "rapid")),
                 blitz |-> Len(GamesOf(InMonth(m), "blitz")),
                 bullet |-> Len(GamesOf(InMonth(m), "bullet")),
                 total |-> Len(InMonth(m))]]
        activeMonths ==
            ArraySort(FilterSeq(distribution, LAMBDA d : d.total > 0),
                      LAMBDA a, b : b.total - a.total)
    IN  [mostActive |->
            IF Len(activeMonths) > 0
            THEN [month |-> activeMonths[1].month, games |-> activeMonths[1].total]
            ELSE [month |-> 0, games |-> 0],
         leastActive |->
            IF Len(activeMonths) > 0
            THEN [month |-> activeMonths[Len(activeMonths)].month,
                  games |-> activeMonths[Len(activeMonths)].total]
            ELSE [month |-> 0, games |-> 0],
         distribution |-> distribution]

(***************************************************************************)
(* The report composer: getChessWrapped, lines 246-287.                    *)
(***************************************************************************)
ComposeReport(games, username) ==
    [intro |-> GenerateIntroStats(games, username),
     monthlyGames |-> GenerateMonthlyGames(games),
     ratings |-> GenerateRatingStats(games, username),
     formatSpecific |-> GenerateFormatSpecificStats(games, username),
     playingPatterns |-> GeneratePlayingPatternStats(games, username),
     openings |-> GenerateOpeningStats(games, username),
     opponents |-> GenerateOpponentStats(games, username),
     performance |-> GeneratePerformanceStats(games, username)]

(***************************************************************************)
(* The view of getChessWrappedStats (lines 318-342 and 347-371): the       *)
(* report without its ratings and, in each format's section, without       *)
(* ratingProgress, bestWin and worstLoss, the openings cut to three.       *)
(***************************************************************************)
\* A view that keeps a format's section whole.
CleanFormatWhole(formatStats) == formatStats

CleanFormat(formatStats) ==
    [gamesPlayed |-> formatStats.gamesPlayed,
     winRate |-> formatStats.winRate,
     results |-> formatStats.results,
     averageGameDuration |-> formatStats.averageGameDuration,
     openings |-> [asWhite |-> SliceTo(formatStats.openings.asWhite, 3),
                   asBlack |-> SliceTo(formatStats.openings.asBlack, 3)]]

\* const { ratings, ...otherData } = wrappedData, and the cleaned formats
CleanReport(wrappedData) ==
    [k \in DOMAIN wrappedData \ {"ratings"} |->
        IF k = "formatSpecific"
        THEN [f \in DOMAIN wrappedData.formatSpecific |->
                 CleanFormat(wrappedData.formatSpecific[f])]
        ELSE wrappedData[k]]

(***************************************************************************)
(* The cache: a Map from the lower-cased username to CachedData.           *)
(***************************************************************************)
Keys == {ToLowerCase(u) : u \in Usernames}

MapDelete(m, k) == [x \in DOMAIN m \ {k} |-> m[x]]
MapSet(m, k, v) == [x \in DOMAIN m \cup {k} |-> IF x = k THEN v ELSE m[x]]

CachedData(timestamp, games, wrappedData) ==
    [timestamp |-> timestamp, games |-> games, wrappedData |-> wrappedData]

\* A read that never expires an entry.
GetCachedDataAnyAge(c, username, t) ==
    LET key == ToLowerCase(username) IN
    IF key \in DOMAIN c THEN [data |-> Some(c[key]), cache |-> c]
    ELSE [data |-> Null, cache |-> c]

\* getCachedData: the entry, or null; an entry older than CACHE_DURATION is
\* deleted.  The result is the value returned and the map as the call leaves it.
GetCachedData(c, username, t) ==
    LET key == ToLowerCase(username) IN
    IF key \notin DOMAIN c THEN [data |-> Null, cache |-> c]
    ELSE IF t - c[key].timestamp > CACHE_DURATION
         THEN [data |-> Null, cache |-> MapDelete(c, key)]
         ELSE [data |-> Some(c[key]), cache |-> c]

SetCachedData(c, username, data) == MapSet(c, ToLowerCase(username), data)

\* A test that never finds a report.
HasWrappedDataNever(data) == FALSE

\* cachedData?.wrappedData (an object is truthy)
HasWrappedData(data) == data # Null /\ data[1].wrappedData # Null

(* Requests.  pc is where the handler is:                                  *)
(*   idle      no request                                                  *)
(*   archives  in getGames, awaiting getArchives                           *)
(*   fetch     in getGames, awaiting fetchFromChessCom(archives[idx])      *)
(*   compute   running, the game log in hand, about to run the analyzers   *)
(*   done      running, the answer made, about to be sent                  *)
(* The fields from hit on are history: what the request did.               *)
(*   hit        it was answered from a cached report                       *)
(*   age        the age of that cache entry when it was read               *)
(*   requests   upstream requests it issued                                *)
(*   computed   it ran the analyzers                                       *)
(*   stores     cache entries it stored                                    *)
(*   listFailed getArchives failed                                         *)
(*   due        the well-formed games of the archives it fetched           *)
(*   skipped    an archive fetch failed                                    *)
(*   logTime    when its game log left ingestion                           *)
(*   dup        it stored an entry over one stored during its own fetch    *)
(*   expired    the entry it read first was older than CACHE_DURATION      *)
(***************************************************************************)
IdleReq ==
    [pc |-> "idle", api |-> "wrapped", username |-> "ann",
     archives |-> <<>>, idx |-> 0, allGames |-> <<>>, games |-> <<>>,
     ret |-> Null, ratings |-> Null, view |-> Null,
     hit |-> FALSE, age |-> 0, requests |-> 0,
     computed |-> FALSE, stores |-> 0, listFailed |-> FALSE,
     due |-> <<>>, skipped |-> FALSE, logTime |-> 0, dup |-> FALSE,
     expired |-> FALSE]

\* No run of the composer outside a request.
IdleRun == [pc |-> "idle", username |-> "", games |-> <<>>, report |-> Null]

\* A handler is running: no other handler takes a step before it is done.
Running == \E p \in Procs : req[p].pc \in {"compute", "done"}

\* A record of an archive that is a game of a supported time class with both
\* players' names and results.
WellFormed(game) ==
    /\ game.time_class \in {"rapid", "blitz", "bullet"}
    /\ game.white.username # "" /\ game.black.username # ""
    /\ game.white.result # "" /\ game.black.result # ""

WellFormedUrls(body) ==
    IF body = Null THEN <<>>
    ELSE LET F[i \in 0..Len(body[1])] ==
                 IF i = 0 THEN <<>>
                 ELSE IF WellFormed(body[1][i])
                      THEN Append(F[i - 1], body[1][i].url) ELSE F[i - 1]
         IN  F[Len(body[1])]

\* A start that waits for a request in flight for the same key instead of
\* fetching: it goes on with an empty log.
StartWrappedSingleFlight(c, username, t) ==
    LET r1 == GetCachedData(c, username, t) IN
    IF HasWrappedData(r1.data)
    THEN [kind |-> "hit", data |-> r1.data, cache |-> r1.cache]
    ELSE IF r1.data # Null
    THEN [kind |-> "log", data |-> r1.data, cache |-> r1.cache]
    ELSE IF \E q \in Procs : /\ req[q].pc \in {"archives", "fetch"}
                             /\ ToLowerCase(req[q].username) = ToLowerCase(username)
    THEN [kind |-> "log", data |-> Some(CachedData(t, <<>>, Null)), cache |-> r1.cache]
    ELSE [kind |-> "fetch", data |-> Null, cache |-> r1.cache]

\* getChessWrapped up to its first upstream request (lines 237-243 and, inside
\* getGames, 71-77): the cached report, the cached log, or a fetch.
StartWrapped(c, username, t) ==
    LET r1 == GetCachedData(c, username, t) IN
    IF HasWrappedData(r1.data)
    THEN [kind |-> "hit", data |-> r1.data, cache |-> r1.cache]
    ELSE IF r1.data # Null
    THEN [kind |-> "log", data |-> r1.data, cache |-> r1.cache]
    ELSE LET r2 == GetCachedData(r1.cache, username, t) IN
         IF r2.data # Null
         THEN [kind |-> "log", data |-> r2.data, cache |-> r2.cache]
         ELSE [kind |-> "fetch", data |-> Null, cache |-> r2.cache]

\* A hit branch that cuts the cached report down to the view.
StatsFromCacheInPlace(wrappedData) ==
    [view |-> CleanReport(wrappedData), wrappedData |-> CleanReport(wrappedData)]

\* The cache-hit branch of getChessWrappedStats: the view returned, and the
\* cached report as the branch leaves it.
StatsFromCache(wrappedData) ==
    [view |-> CleanReport(wrappedData), wrappedData |-> wrappedData]

\* The cache-miss branch of getChessWrappedStats.
StatsFromFull(fullData) == CleanReport(fullData)

\* What the request answers with, given the full report.
Answered(r, report) ==
    [r EXCEPT !.pc = "done", !.ret = Some(report),
              !.ratings = IF r.api = "ratings" THEN Some(report.ratings) ELSE Null,
              !.view = IF r.api = "stats" THEN Some(StatsFromFull(report)) ELSE Null]

\* A request arrives: getChessWrapped, getChessWrappedRatings or
\* getChessWrappedStats runs up to its first upstream request or its return.
Call(p, username, api) ==
    /\ req[p].pc = "idle"
    /\ ~Running
    /\ LET key == ToLowerCase(username)
           r0 == GetCachedData(cache, username, now)
           new == [IdleReq EXCEPT
                     !.api = api, !.username = username,
                     !.expired = /\ key \in DOMAIN cache
                                 /\ now - cache[key].timestamp > CACHE_DURATION]
       IN
       IF api # "wrapped" /\ HasWrappedData(r0.data)
       THEN LET wd == r0.data[1].wrappedData[1]
                st == StatsFromCache(wd)
            IN
            /\ cache' = IF api = "stats"
                        THEN MapSet(r0.cache, key,
                                    [r0.data[1] EXCEPT !.wrappedData = Some(st.wrappedData)])
                        ELSE r0.cache
            /\ req' = [req EXCEPT ![p] =
                 [new EXCEPT !.pc = "done", !.hit = TRUE,
                             !.age = now - r0.data[1].timestamp,
                             !.ret = Some(wd),
                             !.ratings = IF api = "ratings" THEN Some(wd.ratings) ELSE Null,
                             !.view = IF api = "stats" THEN Some(st.view) ELSE Null]]
       ELSE LET s == StartWrapped(r0.cache, username, now) IN
            /\ cache' = s.cache
            /\ req' = [req EXCEPT ![p] =
                 CASE s.kind = "hit" ->
                        [Answered(new, s.data[1].wrappedData[1])
                           EXCEPT !.hit = TRUE, !.age = now - s.data[1].timestamp]
                   [] s.kind = "log" ->
                        [new EXCEPT !.pc = "compute", !.games = s.data[1].games,
                                    !.logTime = captured[key]]
                   [] OTHER ->
                        [new EXCEPT !.pc = "archives", !.requests = 1]]
    /\ UNCHANGED <<now, captured, run>>

\* getArchives throws (404, or the upstream is down): getGames catches it
\* (line 141) and returns [].
ArchivesFail(p) ==
    /\ req[p].pc = "archives"
    /\ ~Running
    /\ req' = [req EXCEPT ![p] = [@ EXCEPT !.pc = "compute", !.games = <<>>,
                                           !.listFailed = TRUE, !.logTime = now]]
    /\ UNCHANGED <<cache, now, captured, run>>

\* getArchives answers: keep the 2024 archives; none means no games.
ArchivesOk(p, archives) ==
    /\ req[p].pc = "archives"
    /\ ~Running
    /\ LET year2024Archives == FilterSeq(archives, Includes2024) IN
       req' = [req EXCEPT ![p] =
                 IF Len(year2024Archives) = 0
                 THEN [@ EXCEPT !.pc = "compute", !.games = <<>>, !.logTime = now]
                 ELSE [@ EXCEPT !.pc = "fetch", !.archives = year2024Archives,
                                !.idx = 1, !.requests = @ + 1]]
    /\ UNCHANGED <<cache, now, captured, run>>

\* The archive loop goes on with the next archive or, after the last one,
\* getGames sorts and stores the log (lines 127-140).
AfterArchive(p, allGames, r) ==
    IF r.idx < Len(r.archives)
    THEN /\ req' = [req EXCEPT ![p] =
                      [r EXCEPT !.allGames = allGames, !.idx = @ + 1,
                                !.requests = @ + 1]]
         /\ UNCHANGED <<cache, captured>>
    ELSE IF Len(allGames) = 0
    THEN /\ req' = [req EXCEPT ![p] =
                      [r EXCEPT !.pc = "compute", !.allGames = allGames,
                                !.games = <<>>, !.logTime = now]]
         /\ UNCHANGED <<cache, captured>>
    ELSE LET sorted == SortGames(allGames) IN
         /\ cache' = SetCachedData(cache, r.username, CachedData(now, sorted, Null))
         /\ captured' = [captured EXCEPT ![ToLowerCase(r.username)] = now]
         /\ req' = [req EXCEPT ![p] =
                      [r EXCEPT !.pc = "compute", !.allGames = allGames,
                                !.games = sorted, !.logTime = now,
                                !.stores = @ + 1,
                                !.dup = ToLowerCase(r.username) \in DOMAIN cache]]

\* fetchFromChessCom answers with a body.
FetchOk(p, body) ==
    /\ req[p].pc = "fetch"
    /\ ~Running
    /\ AfterArchive(p, req[p].allGames \o ValidGames(body),
                    [req[p] EXCEPT !.due = @ \o WellFormedUrls(body)])
    /\ UNCHANGED <<now, run>>

\* A failed archive fetch that ends the ingestion with no games.
FetchFailAborting(p) ==
    /\ req[p].pc = "fetch"
    /\ ~Running
    /\ req' = [req EXCEPT ![p] = [@ EXCEPT !.pc = "compute", !.games = <<>>,
                                           !.skipped = TRUE, !.logTime = now]]
    /\ UNCHANGED <<cache, now, captured, run>>

\* fetchFromChessCom throws: the archive is skipped (line 122).
FetchFail(p) ==
    /\ req[p].pc = "fetch"
    /\ ~Running
    /\ AfterArchive(p, req[p].allGames, [req[p] EXCEPT !.skipped = TRUE])
    /\ UNCHANGED <<now, run>>

\* getChessWrapped from line 246 on: the analyzers run over the log, the
\* report is stored with the time the store is made at, and returned.  The
\* run takes ms milliseconds.
Compute(p, ms) ==
    /\ req[p].pc = "compute"
    /\ (now + ms) % TickMs <= MaxDrift
    /\ \E wrappedData \in {ComposeReport(req[p].games, req[p].username)} :
       LET r == req[p]
           key == ToLowerCase(r.username)
       IN
       /\ now' = now + ms
       /\ cache' = SetCachedData(cache, r.username,
                                 CachedData(now', r.games, Some(wrappedData)))
       /\ captured' = [captured EXCEPT ![key] = r.logTime]
       /\ req' = [req EXCEPT ![p] =
                    [Answered(r, wrappedData)
                       EXCEPT !.computed = TRUE, !.stores = @ + 1,
                              !.dup = @ \/ (r.stores = 0 /\ r.requests > 0
                                            /\ key \in DOMAIN cache)]]
    /\ UNCHANGED run

\* The answer is sent; the slot is free for the next request.
Return(p) ==
    /\ req[p].pc = "done"
    /\ req' = [req EXCEPT ![p] = IdleReq]
    /\ UNCHANGED <<cache, now, captured, run>>

\* Time passes while no handler runs.
Tick ==
    /\ ~Running
    /\ now \div TickMs < MaxTicks
    /\ now' = now + TickMs
    /\ UNCHANGED <<cache, req, captured, run>>

Init ==
    /\ cache = [k \in {} |-> Null]
    /\ now = 0
    /\ req = [p \in Procs |-> IdleReq]
    /\ captured = [k \in Keys |-> 0]
    /\ run = IdleRun

Next ==
    \/ \E p \in Procs : \E api \in ApisOf(p) : Call(p, UsernameOf(p), api)
    \/ \E p \in Procs : ArchivesFail(p)
    \/ \E p \in Procs, archives \in ArchiveLists : ArchivesOk(p, archives)
    \/ \E p \in Procs, body \in ArchiveBodies : FetchOk(p, body)
    \/ \E p \in Procs : FetchFail(p)
    \/ \E p \in Procs, ms \in 0..MaxComputeMs : Compute(p, ms)
    \/ \E p \in Procs : Return(p)
    \/ Tick

Spec == Init /\ [][Next]_vars

(***************************************************************************)
(* Runs of the report composer (getChessWrapped, lines 246-287) on game    *)
(* logs as getGames hands them over: sorted by end_time, every record      *)
(* normalized.  A log is written as a plan, one entry per game: its time   *)
(* class, the days since the game before it, the subject's rating after it *)
(* and the subject's result.                                               *)
(***************************************************************************)
MaxDays == 4        \* games of a plan that varies the days played
MaxRated == 3       \* games of a plan that varies ratings and time classes

Entry(tc, gap, rating, res) == [tc |-> tc, gap |-> gap, rating |-> rating, res |-> res]

\* Game number i of a log, played on the given day of 2024 (0 is January 1):
\* the subject "ann" against Bob, with white in the odd games.
LogGame(tc, day, i, rating, res) ==
    LET me == Side("ann", Some(rating), res)
        other == Side("Bob", Some(1500), IF res = "win" THEN "resigned" ELSE "win")
    IN  NormalizeGame(RawGame(tc, IF i % 2 = 1 THEN me ELSE other,
                              IF i % 2 = 1 THEN other ELSE me,
                              day * 86400 + 60 * i, ToString(i)))

LogOf(plan) ==
    LET day[i \in 0..Len(plan)] == IF i = 0 THEN 0 ELSE day[i - 1] + plan[i].gap
    IN  [i \in 1..Len(plan) |->
            LogGame(plan[i].tc, day[i], i, plan[i].rating, plan[i].res)]

SeqsUpTo(S, n) == UNION {[1..k -> S] : k \in 0..n}

\* Rapid games at one rating, 0 to 3 days apart.
DayPlans ==
    SeqsUpTo({Entry("rapid", gap, 1500, "win") : gap \in 0..3}, MaxDays)

\* Rapid and blitz games on the same or the next day, the rating going up
\* and down; a game that ends under 1500 is lost.
RatedPlans ==
    SeqsUpTo({Entry(tc, gap, rating, IF rating < 1500 THEN "resigned" ELSE "win") :
                 tc \in {"rapid", "blitz"}, gap \in 0..1,
                 rating \in {1490, 1500, 1520}},
             MaxRated)

\* So many rapid, blitz and bullet games on one day, the time classes in
\* the given order.
Counts(rapid, blitz, bullet) == [rapid |-> rapid, blitz |-> blitz, bullet |-> bullet]

BlockLog(order, counts) ==
    LET n1 == counts[order[1]]
        n2 == n1 + counts[order[2]]
        n3 == n2 + counts[order[3]]
    IN  [i \in 1..n3 |->
            LogGame(IF i <= n1 THEN order[1]
                    ELSE IF i <= n2 THEN order[2] ELSE order[3],
                    0, i, 1500, "win")]

Orders == {Formats, <<"bullet", "blitz", "rapid">>}

CountVectors ==
    {Counts(r, b, u) : r \in 0..2, b \in 0..2, u \in {0, 1, 6}}
        \cup {Counts(1, 7, 0), Counts(3, 5, 0), Counts(1, 9, 0)}

(***************************************************************************)
(* Logs that vary what the other analyzers read: the result codes, the     *)
(* opponents and their ratings, the hour and the week day, the opening     *)
(* tags of the PGN, the accuracies.  A game is written as a record of      *)
(* these; the subject "ann" is rated 1500 throughout.                      *)
(***************************************************************************)
MaxResults == 3     \* games of a plan that varies the result codes
MaxOpponents == 3   \* games of a plan that varies opponents and time classes
MaxAccurate == 3    \* games of a plan that varies the accuracies

\* A rapid win with white against Bob (1500) at midnight of January 1, with
\* no opening tags and no accuracies.  drift is what the opponent's rating
\* gains with each game of the log.
PlainGame ==
    [tc |-> "rapid", day |-> 0, hour |-> 0, white |-> TRUE, res |-> "win",
     opp |-> "Bob", oppRating |-> 1500, drift |-> 0, opening |-> 0, acc |-> Null]

\* The result codes chess.com gives a draw.
DrawCodes == {"agreed", "repetition", "stalemate", "insufficient", "50move",
              "timevsinsufficient"}

\* The opponent's result code in a game the subject ended with res.
OtherResult(res) ==
    IF res = "win" THEN "resigned" ELSE IF res \in DrawCodes THEN res ELSE "win"

\* The ECO and ECOUrl tags of four openings.
OpeningBook ==
    <<[moves |-> 0, eco |-> "B20", ecoUrl |-> "Sicilian-Defense"],
      [moves |-> 0, eco |-> "C20", ecoUrl |-> "Kings-Pawn-Opening"],
      [moves |-> 0, eco |-> "A10", ecoUrl |-> "English-Opening"],
      [moves |-> 0, eco |-> "C00", ecoUrl |-> "French-Defense"]>>

\* Game number i of a log, from its record.
DetailGame(i, e) ==
    LET me == Side("ann", Some(1500), e.res)
        other == Side(e.opp, Some(e.oppRating + e.drift * i), OtherResult(e.res))
        raw == RawGame(e.tc, IF e.white THEN me ELSE other,
                       IF e.white THEN other ELSE me,
                       e.day * 86400 + e.hour * 3600 + 60 * i, ToString(i))
    IN  NormalizeGame(
            [raw EXCEPT
               !.pgn = Some(IF e.opening = 0 THEN NoPgn ELSE OpeningBook[e.opening]),
               !.accuracies =
                  IF e.acc = Null THEN Null
                  ELSE Some([white |-> IF e.white THEN e.acc[1] ELSE 75,
                             black |-> IF e.white THEN 75 ELSE e.acc[1]])])

DetailLog(plan) == [i \in 1..Len(plan) |-> DetailGame(i, plan[i])]

\* Wins and resignations against Bob (1400) or Cat (1600), draws by agreement
\* and by repetition against Bob.
ResultPlans ==
    SeqsUpTo({[PlainGame EXCEPT !.res = o[1], !.opp = o[2], !.oppRating = o[3]] :
                 o \in ({"win", "resigned"} \X {"Bob"} \X {1400})
                          \cup ({"win", "resigned"} \X {"Cat"} \X {1600})
                          \cup ({"agreed", "repetition"} \X {"Bob"} \X {1400})},
             MaxResults)

\* Rapid wins and losses against Bob and Cat and blitz ones against Bob; the
\* opponent's rating goes up by 10 with every game of the log.
OpponentPlans ==
    SeqsUpTo({[PlainGame EXCEPT !.tc = o[1], !.opp = o[2], !.res = res, !.drift = 10] :
                 o \in {<<"rapid", "Bob">>, <<"rapid", "Cat">>, <<"blitz", "Bob">>},
                 res \in {"win", "resigned"}},
             MaxOpponents)

\* One game against each of four opponents.
FourOpponents ==
    {[i \in 1..4 |-> [PlainGame EXCEPT !.opp = <<"Bob", "Cat", "Dan", "Eve">>[i],
                                       !.res = res[i]]] :
        res \in [1..4 -> {"win", "resigned"}]}

\* Rapid and blitz games without accuracies, with an accuracy of 0, or of 90.
AccuracyPlans ==
    SeqsUpTo({[PlainGame EXCEPT !.tc = tc, !.acc = acc] :
                 tc \in {"rapid", "blitz"}, acc \in {Null, Some(0), Some(90)}},
             MaxAccurate)

\* a games on the morning of Monday, January 1, the first wa of them won, then
\* b games on the evening of Tuesday, the first wb of them won.
PatternPlan(a, wa, b, wb) ==
    [i \in 1..a + b |->
        [PlainGame EXCEPT
           !.day = IF i <= a THEN 0 ELSE 1,
           !.hour = IF i <= a THEN 6 ELSE 18,
           !.res = IF (i <= a /\ i <= wa) \/ (i > a /\ i - a <= wb)
                   THEN "win" ELSE "resigned"]]

PatternPlans ==
    {PatternPlan(a, wa, b, wb) :
        a \in {0, 4, 5}, wa \in {0, 2, 5}, b \in {0, 4, 5, 6}, wb \in {0, 2, 3, 6}}

\* counts[k] games of opening k of the book, opening after opening, all with
\* the same colour; the games at the positions in wins are won.
OpeningPlan(white, counts, wins) ==
    LET n1 == counts[1]
        n2 == n1 + counts[2]
        n3 == n2 + counts[3]
        n4 == n3 + counts[4]
    IN  [i \in 1..n4 |->
            [PlainGame EXCEPT
               !.white = white,
               !.opening = IF i <= n1 THEN 1 ELSE IF i <= n2 THEN 2
                           ELSE IF i <= n3 THEN 3 ELSE 4,
               !.res = IF i \in wins THEN "win" ELSE "resigned"]]

OpeningPlans ==
    {OpeningPlan(white, counts, wins) :
        white \in BOOLEAN, counts \in [1..4 -> 0..2],
        wins \in {{}, 1..8, {1, 3, 5, 7}, {1, 2, 3}, {2, 4, 5}}}

DetailPlans ==
    {ResultPlans, OpponentPlans, FourOpponents, AccuracyPlans, PatternPlans,
     OpeningPlans}

\* The logs the analyzers are run over, one family for each kind of plan.
Logs ==
    {{LogOf(plan) : plan \in DayPlans}, {LogOf(plan) : plan \in RatedPlans},
     {BlockLog(order, counts) : order \in Orders, counts \in CountVectors}}
        \cup {{DetailLog(plan) : plan \in plans} : plans \in DetailPlans}

\* The composer starts on a log for the subject "Ann".
NewRun(games) == [pc |-> "log", username |-> "Ann", games |-> games, report |-> Null]

\* The analyzers run over the log and the report is put together.
Analyze ==
    /\ run.pc = "log"
    /\ \E wrappedData \in {ComposeReport(run.games, run.username)} :
          run' = [run EXCEPT !.pc = "done", !.report = Some(wrappedData)]
    /\ UNCHANGED <<cache, now, req, captured>>

InitAnalyzers ==
    /\ cache = [k \in {} |-> Null]
    /\ now = 0
    /\ req = [p \in Procs |-> IdleReq]
    /\ captured = [k \in Keys |-> 0]
    /\ \E logs \in Logs : run \in {NewRun(games) : games \in logs}

NextAnalyzers == Analyze

SpecAnalyzers == InitAnalyzers /\ [][NextAnalyzers]_vars

(***************************************************************************)
(* Runs of generateFormatSpecificStats up to its choice of the formats it  *)
(* reports (lines 686-691, 819-820), on logs of up to some hundred games.  *)
(***************************************************************************)
LargeCountVectors ==
    {Counts(r, b, u) : r \in {0, 1, 10, 14, 15}, b \in {0, 9, 90, 135, 136, 190},
                       u \in {0, 1, 15}}

\* The formats that get a section: the keys of the map returned.
SelectFormats ==
    /\ run.pc = "log"
    /\ run' = [run EXCEPT
                 !.pc = "formats",
                 !.report = Some([formats |-> EligibleFormats(run.games)])]
    /\ UNCHANGED <<cache, now, req, captured>>

InitFormats ==
    /\ cache = [k \in {} |-> Null]
    /\ now = 0
    /\ req = [p \in Procs |-> IdleReq]
    /\ captured = [k \in Keys |-> 0]
    /\ run \in {NewRun(BlockLog(Formats, counts)) : counts \in LargeCountVectors}

NextFormats == SelectFormats

SpecFormats == InitFormats /\ [][NextFormats]_vars

(***************************************************************************)
(* Properties.                                                             *)
(***************************************************************************)
\* How often a game URL occurs in a sequence of URLs.
Occurrences(urls, u) == Cardinality({i \in 1..Len(urls) : urls[i] = u})

\* C1: a call of getChessWrapped made while the entry of its subject holds a
\* report and is unexpired (now - timestamp <= CACHE_DURATION) returns that
\* report, issues no upstream request, runs no analyzer and stores nothing;
\* and the report an entry holds is the one the call that computed it
\* returned.
C1_RepeatWithinTtlServedFromCache ==
    [][\A p \in Procs :
         LET key == ToLowerCase(req'[p].username) IN
         /\ ( /\ req[p].pc = "idle" /\ req'[p].pc # "idle"
              /\ req'[p].api = "wrapped"
              /\ key \in DOMAIN cache
              /\ cache[key].wrappedData # Null
              /\ now - cache[key].timestamp <= CACHE_DURATION )
            => /\ req'[p].pc = "done"
               /\ req'[p].ret = cache[key].wrappedData
               /\ req'[p].requests = 0
               /\ ~req'[p].computed
               /\ req'[p].stores = 0
               /\ cache' = cache
         /\ (req[p].pc = "compute" /\ req'[p].pc = "done")
            => /\ key \in DOMAIN cache'
               /\ cache'[key].wrappedData = req'[p].ret
      ]_vars

\* A getChessWrapped call answered from a report another call had stored.
C1_Witness ==
    \E p \in Procs :
        /\ req[p].pc = "done" /\ req[p].api = "wrapped" /\ req[p].hit
        /\ req[p].age > 0
        /\ req[p].ret # Null /\ req[p].ret[1].intro.totalGames > 0

\* C2: a read of an entry with now - timestamp > CACHE_DURATION gives null and
\* deletes the entry, so the request goes on to fetch; an answer from the
\* cache, report or log, comes from an entry no older than CACHE_DURATION.
C2_ExpiredEntryAbsentAndEvicted ==
    [][\A p \in Procs :
         (req[p].pc = "idle" /\ req'[p].pc # "idle") =>
            LET key == ToLowerCase(req'[p].username) IN
            /\ (key \in DOMAIN cache /\ now - cache[key].timestamp > CACHE_DURATION)
               => /\ key \notin DOMAIN cache'
                  /\ req'[p].pc = "archives"
                  /\ ~req'[p].hit
            /\ req'[p].hit => req'[p].age <= CACHE_DURATION
            /\ req'[p].pc \in {"done", "compute"}
               => /\ key \in DOMAIN cache
                  /\ now - cache[key].timestamp <= CACHE_DURATION
      ]_vars

\* A request whose first read found an expired entry: the entry is gone and
\* the request is fetching.
C2_Witness ==
    \E p \in Procs :
        /\ req[p].pc = "archives" /\ req[p].expired
        /\ ToLowerCase(req[p].username) \notin DOMAIN cache

\* C3: an entry that holds a report carries the timestamp its log was captured
\* at, so that no answer is served from the cache more than CACHE_DURATION
\* after the capture of the log it rests on.
C3_ReportUnderCaptureTimestamp ==
    /\ \A k \in DOMAIN cache :
          cache[k].wrappedData # Null => cache[k].timestamp = captured[k]
    /\ \A p \in Procs :
          (req[p].pc = "done" /\ req[p].hit)
             => now - captured[ToLowerCase(req[p].username)] <= CACHE_DURATION

\* C4: a request whose listing of archives failed does not answer with a
\* report.
C4_ListingFailurePropagated ==
    \A p \in Procs :
        (req[p].pc = "done" /\ req[p].listFailed) => req[p].ret = Null

\* C5: when the archive loop of a request is over, its log holds every
\* well-formed game of every archive that answered, as often as the archives
\* held it, whether or not a fetch failed; a failed fetch leaves the request
\* in the loop or at its end.
C5_FailedArchiveSkipped ==
    \A p \in Procs :
        /\ (req[p].pc = "compute" /\ req[p].archives # <<>>)
           => LET urls == [i \in 1..Len(req[p].games) |-> req[p].games[i].url] IN
              /\ Len(urls) = Len(req[p].due)
              /\ \A i \in 1..Len(req[p].due) :
                    Occurrences(urls, req[p].due[i])
                        = Occurrences(req[p].due, req[p].due[i])
        /\ req[p].skipped => req[p].pc \in {"fetch", "compute", "done"}

\* A log with games, made by a loop in which a fetch failed.
C5_Witness ==
    \E p \in Procs :
        /\ req[p].pc = "compute" /\ req[p].skipped
        /\ Len(req[p].games) >= 2
        /\ Len(req[p].archives) = 2

\* A log in non-decreasing end_time order whose records all have a supported
\* time class, both usernames and both result codes.
SortedValidLog(games) ==
    /\ \A i \in 1..Len(games) - 1 : games[i].end_time <= games[i + 1].end_time
    /\ \A i \in 1..Len(games) : WellFormed(games[i])

\* C6: the log of every cache entry and the log every request works on is
\* sorted by end_time and holds well-formed records only; the records of an
\* archive that are not well-formed are left out and the loop goes on.
C6_LogsSortedAndValid ==
    /\ \A k \in DOMAIN cache : SortedValidLog(cache[k].games)
    /\ \A p \in Procs :
          /\ SortedValidLog(req[p].games)
          /\ \A i \in 1..Len(req[p].allGames) : WellFormed(req[p].allGames[i])

\* A cached log of the three well-formed games out of six records of two
\* archives, the game stored out of order moved to the front.
C6_Witness ==
    \E k \in DOMAIN cache :
        /\ Len(cache[k].games) = 3
        /\ cache[k].games[1].url = "g1"
        /\ cache[k].games[2].url = "g2"
        /\ cache[k].games[3].url = "g3"

\* C7: a view answered by getChessWrappedStats, from a cached report or from
\* a report just computed, has no ratings section, has no ratingProgress,
\* bestWin or worstLoss in the section of any format, and at most three
\* openings as white and as black in each.
C7_ViewHasNoRatingsAndShortOpenings ==
    \A p \in Procs :
        req[p].view # Null =>
            LET view == req[p].view[1] IN
            /\ "ratings" \notin DOMAIN view
            /\ \A f \in DOMAIN view.formatSpecific :
                  /\ DOMAIN view.formatSpecific[f]
                        \cap {"ratingProgress", "bestWin", "worstLoss"} = {}
                  /\ Len(view.formatSpecific[f].openings.asWhite) <= 3
                  /\ Len(view.formatSpecific[f].openings.asBlack) <= 3

\* A view of a report just computed whose format sections had rating
\* progress to leave out.
C7_Witness ==
    \E p \in Procs :
        /\ req[p].pc = "done" /\ req[p].api = "stats" /\ req[p].computed
        /\ req[p].view # Null
        /\ \E f \in DOMAIN req[p].view[1].formatSpecific :
              Len(req[p].ret[1].formatSpecific[f].ratingProgress) > 0

\* C8: a getChessWrappedStats or getChessWrappedRatings call answered from a
\* cached report leaves the cache as it was, the report in it still with its
\* ratings and whole format sections, and the ratings query answers with the
\* ratings of that report; on the miss path the entry holds the whole report.
C8_ViewLeavesEntryUnchanged ==
    [][\A p \in Procs :
         LET key == ToLowerCase(req'[p].username) IN
         /\ ( /\ req[p].pc = "idle" /\ req'[p].pc = "done"
              /\ req'[p].api \in {"stats", "ratings"} )
            => /\ cache' = cache
               /\ "ratings" \in DOMAIN cache'[key].wrappedData[1]
               /\ \A f \in DOMAIN cache'[key].wrappedData[1].formatSpecific :
                     {"ratingProgress", "bestWin", "worstLoss"}
                        \subseteq DOMAIN cache'[key].wrappedData[1].formatSpecific[f]
               /\ req'[p].ret = cache[key].wrappedData
               /\ req'[p].api = "ratings"
                  => req'[p].ratings = Some(cache[key].wrappedData[1].ratings)
         /\ ( /\ req[p].pc = "compute" /\ req'[p].pc = "done"
              /\ req'[p].api = "stats" )
            => /\ cache'[key].wrappedData = req'[p].ret
               /\ "ratings" \in DOMAIN cache'[key].wrappedData[1]
      ]_vars

\* A view derived from a cached report with format sections, the entry still
\* holding the whole report.
C8_Witness ==
    \E p \in Procs :
        /\ req[p].pc = "done" /\ req[p].api = "stats" /\ req[p].hit
        /\ req[p].view # Null
        /\ DOMAIN req[p].view[1].formatSpecific # {}
        /\ cache[ToLowerCase(req[p].username)].wrappedData = req[p].ret

\* C9: a call that finds no usable entry starts its own ingestion even while
\* another request for the same key is in its ingestion: nothing makes it
\* wait for or join that request.
C9_NoPerKeyExclusion ==
    [][\A p \in Procs :
         LET key == ToLowerCase(req'[p].username) IN
         ( /\ req[p].pc = "idle" /\ req'[p].pc # "idle"
           /\ \/ key \notin DOMAIN cache
              \/ now - cache[key].timestamp > CACHE_DURATION
           /\ \E q \in Procs \ {p} :
                 /\ req[q].pc \in {"archives", "fetch"}
                 /\ ToLowerCase(req[q].username) = key )
         => /\ req'[p].pc = "archives"
            /\ req'[p].requests = 1
      ]_vars

\* A request that started on a miss, fetched its archives and stored an entry
\* over the entry another request stored while it was fetching.
C9_Witness ==
    \E p \in Procs :
        /\ req[p].pc = "done" /\ req[p].computed /\ req[p].dup
        /\ ~req[p].hit
        /\ req[p].requests >= 2
        /\ req[p].stores = 2

\* The sentinel entries of the rankings.
IsDefaultOpponents(list) ==
    /\ Len(list) = 1
    /\ list[1].username = "No opponents found"
    /\ list[1].games = 0

IsNoOpenings(list) ==
    /\ Len(list) = 1
    /\ list[1].name = <<"No openings recorded">>
    /\ list[1].count = 0

\* C10: the report computed from an empty log has totalGames 0, count and
\* percentage 0 for every format, zero-day streak and break; null current
\* rating, peak, best gain and worst loss for every format; and one sentinel
\* entry in each opponent and opening ranking.  (An analyzer that failed on
\* the empty log would stop the evaluation of the step.)
C10_EmptyLogReport ==
    \A p \in Procs :
        (req[p].pc = "done" /\ req[p].computed /\ req[p].games = <<>>) =>
            LET r == req[p].ret[1] IN
            /\ r.intro.totalGames = 0
            /\ \A f \in FormatSet :
                  /\ r.intro.formatBreakdown[f].count = 0
                  /\ r.intro.formatBreakdown[f].percentage = 0
            /\ r.intro.longestStreak.days = 0
            /\ r.intro.longestStreak.gamesPlayed = 0
            /\ r.intro.longestStreak.startDate = EmptyDate
            /\ r.intro.longestStreak.endDate = EmptyDate
            /\ r.intro.longestBreak.days = 0
            /\ r.intro.longestBreak.startDate = EmptyDate
            /\ r.intro.longestBreak.endDate = EmptyDate
            /\ \A f \in FormatSet :
                  /\ r.ratings.currentRatings[f] = Null
                  /\ r.ratings.peakRatings[f] = Null
                  /\ r.ratings.bestRatingGains[f] = Null
                  /\ r.ratings.worstRatingLosses[f] = Null
            /\ IsDefaultOpponents(r.opponents.overall.mostPlayed)
            /\ IsDefaultOpponents(r.opponents.overall.bestPerformance)
            /\ IsDefaultOpponents(r.opponents.overall.worstPerformance)
            /\ \A f \in FormatSet :
                  /\ IsDefaultOpponents(r.opponents.byFormat[f].mostPlayed)
                  /\ IsDefaultOpponents(r.opponents.byFormat[f].bestPerformance)
                  /\ IsDefaultOpponents(r.opponents.byFormat[f].worstPerformance)
            /\ IsNoOpenings(r.openings.byColor.asWhite.topOpenings)
            /\ IsNoOpenings(r.openings.byColor.asWhite.worstOpenings)
            /\ IsNoOpenings(r.openings.byColor.asBlack.topOpenings)
            /\ IsNoOpenings(r.openings.byColor.asBlack.worstOpenings)

\* A report computed from the empty log of archives that held no well-formed
\* game.
C10_Witness ==
    \E p \in Procs :
        /\ req[p].pc = "done" /\ req[p].computed /\ req[p].games = <<>>
        /\ ~req[p].listFailed
        /\ req[p].requests >= 2
        /\ req[p].ret # Null

\* ---------------------------------------------------------------------------
\* The analyzers on a game log
\* ---------------------------------------------------------------------------

\* C11: every rate and average of the report is a number, and for a log with
\* zero games the playing patterns report averageGamesPerDay = 0 and
\* averageGameDuration = 0.
C11_AveragesGuarded ==
    run.pc = "done" =>
        LET patterns == run.report[1].playingPatterns
        IN  /\ ~patterns.averageGamesPerDay.nan
            /\ ~patterns.averageGameDuration.nan
            /\ run.games = <<>> =>
                  /\ patterns.averageGamesPerDay = Num(0)
                  /\ patterns.averageGameDuration = Num(0)

\* The three percentages of a report's format breakdown, added up.
PercentageSum(intro) ==
    intro.formatBreakdown.rapid.percentage + intro.formatBreakdown.blitz.percentage
        + intro.formatBreakdown.bullet.percentage

PercentagesInRange(intro) ==
    \A f \in FormatSet : intro.formatBreakdown[f].percentage \in 0..100

\* C12 (as stated): for every game log, the three percentages of the format
\* breakdown are each between 0 and 100 and their sum is within 1 of 100.
C12_PercentagesOfEveryLog ==
    run.pc = "done" =>
        /\ PercentagesInRange(run.report[1].intro)
        /\ PercentageSum(run.report[1].intro) \in 99..101

\* C12 (amended): for every game log with at least one game, the three
\* percentages of the format breakdown are each between 0 and 100 and their
\* sum is within 1 of 100; the log with no game has 0, 0 and 0.
C12_PercentagesOfNonEmptyLog ==
    run.pc = "done" =>
        /\ PercentagesInRange(run.report[1].intro)
        /\ run.games # <<>> => PercentageSum(run.report[1].intro) \in 99..101
        /\ run.games = <<>> => PercentageSum(run.report[1].intro) = 0

\* A log of all three categories whose rounded shares add up to 101.
C12_Witness ==
    /\ run.pc = "done"
    /\ \A f \in FormatSet : run.report[1].intro.formatBreakdown[f].count > 0
    /\ PercentageSum(run.report[1].intro) = 101

\* The positions in a log of the games of one category.
IndicesOf(games, f) == {i \in DOMAIN games : games[i].time_class = f}

\* The subject's rating after a game, read off the side the subject played.
SubjectRating(game) ==
    IF ToLowerCase(game.white.username) = ToLowerCase(run.username)
    THEN game.white.rating
    ELSE game.black.rating

\* The position of the game of a category that ended last.
LastIndexOf(games, f) ==
    CHOOSE i \in IndicesOf(games, f) :
        \A j \in IndicesOf(games, f) : games[j].end_time <= games[i].end_time

\* C13: currentRatings[c] is the subject's rating in the chronologically last
\* game of category c, and null when the log has no game of that category.
C13_CurrentRatingIsLastGames ==
    run.pc = "done" =>
        \A f \in FormatSet :
            run.report[1].ratings.currentRatings[f] =
                IF IndicesOf(run.games, f) = {} THEN Null
                ELSE Some(SubjectRating(run.games[LastIndexOf(run.games, f)]))

\* A log whose last rapid game, played with the black pieces, leaves the subject
\* below an earlier rating, and which has no blitz game.
C13_Witness ==
    /\ run.pc = "done"
    /\ Len(run.games) = 2
    /\ IndicesOf(run.games, "rapid") = {1, 2}
    /\ run.games[1].white.rating = 1520
    /\ run.games[2].black.rating = 1490
    /\ ToLowerCase(run.games[2].black.username) = ToLowerCase(run.username)
    /\ run.report[1].ratings.currentRatings.rapid = Some(1490)
    /\ run.report[1].ratings.currentRatings.blitz = Null

\* ---------------------------------------------------------------------------
\* The categories given a Format-Specific entry
\* ---------------------------------------------------------------------------

\* C14: a category is a key of the Format-Specific statistics if and only if
\* its game count is at least 15 or its share of the log is strictly above
\* 10%; a category with 10 of 200 games, with exactly 10% of the games, or any
\* category of an empty log, is absent.
C14_EligibleIffFifteenOrOverTenth ==
    run.pc = "formats" =>
        \A f \in FormatSet :
            f \in run.report[1].formats <=>
                \/ Cardinality(IndicesOf(run.games, f)) >= 15
                \/ 10 * Cardinality(IndicesOf(run.games, f)) > Len(run.games)

\* A log of 152 games: the 15 rapid games, under 10% of the log, have an entry
\* by their count, and the single bullet game has none.
C14_Witness ==
    /\ run.pc = "formats"
    /\ Len(run.games) = 152
    /\ Cardinality(IndicesOf(run.games, "rapid")) = 15
    /\ Cardinality(IndicesOf(run.games, "bullet")) = 1
    /\ run.report[1].formats = {"rapid", "blitz"}

\* ---------------------------------------------------------------------------
\* Streaks, breaks and the favorite category
\* ---------------------------------------------------------------------------

\* The days on which a log has a game.
PlayDays(games) == {DateOf(games[i]) : i \in DOMAIN games}

\* The maximal runs of two or more consecutive play days, as <<first, last>>.
DayRuns(games) ==
    {r \in PlayDays(games) \X PlayDays(games) :
        /\ r[1] < r[2]
        /\ \A d \in r[1]..r[2] : d \in PlayDays(games)
        /\ r[1] - 1 \notin PlayDays(games)
        /\ r[2] + 1 \notin PlayDays(games)}

\* The longest run, the earliest one among runs of the same length.
LongestRun(games) ==
    CHOOSE r \in DayRuns(games) :
        \A q \in DayRuns(games) :
            \/ r[2] - r[1] > q[2] - q[1]
            \/ r[2] - r[1] = q[2] - q[1] /\ r[1] <= q[1]

\* C16: for a log with at least two consecutive play days, longestStreak is the
\* longest run of consecutive play days: days is the number of days of the run,
\* startDate and endDate its first and last day, gamesPlayed the games on its
\* days; a later run replaces the recorded one only when strictly longer.
C16_LongestStreakIsLongestRun ==
    run.pc = "done" /\ DayRuns(run.games) # {} =>
        LET r == LongestRun(run.games)
            longestStreak == run.report[1].intro.longestStreak
        IN  /\ longestStreak.days = r[2] - r[1] + 1
            /\ longestStreak.startDate = r[1]
            /\ longestStreak.endDate = r[2]
            /\ longestStreak.gamesPlayed =
                  Cardinality({i \in DOMAIN run.games : DateOf(run.games[i]) \in r[1]..r[2]})

\* The pairs of consecutive distinct play days with days in between them.
DayGaps(games) ==
    {g \in PlayDays(games) \X PlayDays(games) :
        /\ g[2] - g[1] > 1
        /\ \A d \in g[1] + 1..g[2] - 1 : d \notin PlayDays(games)}

\* The longest gap, the earliest one among gaps of the same length.
LongestGap(games) ==
    CHOOSE g \in DayGaps(games) :
        \A h \in DayGaps(games) :
            \/ g[2] - g[1] > h[2] - h[1]
            \/ g[2] - g[1] = h[2] - h[1] /\ g[1] <= h[1]

\* C17: longestBreak.days is the maximum, over consecutive distinct play days
\* more than one day apart, of the difference in days minus 1, with the two
\* days as its dates; it is 0 with empty dates when there is no such pair. A
\* gap resets the current streak: the recorded streak has no day without a
\* game and starts no earlier than the later day of a gap before it.
C17_LongestBreakIsLongestGap ==
    run.pc = "done" =>
        LET longestBreak == run.report[1].intro.longestBreak
            longestStreak == run.report[1].intro.longestStreak
        IN  /\ DayGaps(run.games) = {} =>
                  /\ longestBreak.days = 0
                  /\ longestBreak.startDate = EmptyDate
                  /\ longestBreak.endDate = EmptyDate
            /\ DayGaps(run.games) # {} =>
                  /\ longestBreak.days = LongestGap(run.games)[2] - LongestGap(run.games)[1] - 1
                  /\ longestBreak.startDate = LongestGap(run.games)[1]
                  /\ longestBreak.endDate = LongestGap(run.games)[2]
            /\ longestStreak.days > 0 =>
                  /\ \A d \in longestStreak.startDate..longestStreak.endDate :
                        d \in PlayDays(run.games)
                  /\ longestStreak.startDate - 1 \notin PlayDays(run.games)

\* Four play days with two breaks, the longer of 2 days, and a streak of two
\* days that starts on the day the longer break ends.
C17_Witness ==
    /\ run.pc = "done"
    /\ Cardinality(PlayDays(run.games)) = 4
    /\ Cardinality(DayGaps(run.games)) = 2
    /\ run.report[1].intro.longestBreak.days = 2
    /\ run.report[1].intro.longestBreak.endDate = run.report[1].intro.longestStreak.startDate
    /\ run.report[1].intro.longestStreak.days = 2

\* ---------------------------------------------------------------------------
\* Ratings
\* ---------------------------------------------------------------------------

\* The rating change of the game at position i within its category: its rating
\* minus the rating of the category's previous game, 0 for the first game.
ChangeAt(games, i) ==
    LET before == {j \in IndicesOf(games, games[i].time_class) : j < i}
    IN  IF before = {} THEN 0
        ELSE SubjectRating(games[i])
                - SubjectRating(games[CHOOSE j \in before : \A k \in before : k <= j])

RECURSIVE SumOver(_, _)
SumOver(S, games) ==
    IF S = {} THEN 0
    ELSE LET i == CHOOSE x \in S : TRUE
         IN  ChangeAt(games, i) + SumOver(S \ {i}, games)

\* The net rating change of a category over one day.
NetChange(games, f, d) ==
    SumOver({i \in IndicesOf(games, f) : DateOf(games[i]) = d}, games)

DaysOf(games, f) == {DateOf(games[i]) : i \in IndicesOf(games, f)}

\* C18: for each category the best gain day is the day with the largest
\* positive net rating change, the sum over that day's games, and gain is that
\* net change; the worst loss day is the day with the most negative net
\* change, and loss is its absolute value.
C18_BestAndWorstDayByNetChange ==
    run.pc = "done" =>
        \A f \in FormatSet :
            LET best == run.report[1].ratings.bestRatingGains[f]
                worst == run.report[1].ratings.worstRatingLosses[f]
                days == DaysOf(run.games, f)
            IN  /\ best # Null <=> \E d \in days : NetChange(run.games, f, d) > 0
                /\ best # Null =>
                      /\ best[1].date \in days
                      /\ best[1].gain = NetChange(run.games, f, best[1].date)
                      /\ \A d \in days : NetChange(run.games, f, d) <= best[1].gain
                /\ worst # Null <=> \E d \in days : NetChange(run.games, f, d) < 0
                /\ worst # Null =>
                      /\ worst[1].date \in days
                      /\ worst[1].loss = -NetChange(run.games, f, worst[1].date)
                      /\ \A d \in days : -NetChange(run.games, f, d) <= worst[1].loss

\* The highest rating of the subject over the games of a category.
MaxRatingOf(games, f) ==
    CHOOSE r \in {SubjectRating(games[i]) : i \in IndicesOf(games, f)} :
        \A i \in IndicesOf(games, f) : SubjectRating(games[i]) <= r

\* The earliest position at which a category's game reaches a rating.
FirstIndexAt(games, f, r) ==
    CHOOSE i \in IndicesOf(games, f) :
        /\ SubjectRating(games[i]) = r
        /\ \A j \in IndicesOf(games, f) : SubjectRating(games[j]) = r => i <= j

\* C19: peakRatings[c].rating is the maximum rating over the category's games
\* and its date is the day of the first game that reached it, so the peak is
\* never below the current rating; the first game of a category is the
\* baseline and contributes a change of 0, so a category of one game has
\* neither a gain nor a loss.
C19_PeakIsFirstMaximum ==
    run.pc = "done" =>
        \A f \in FormatSet :
            LET ratings == run.report[1].ratings
                peak == ratings.peakRatings[f]
            IN  /\ IndicesOf(run.games, f) = {} => peak = Null
                /\ IndicesOf(run.games, f) # {} =>
                      /\ peak # Null
                      /\ peak[1].rating = MaxRatingOf(run.games, f)
                      /\ peak[1].date =
                            DateOf(run.games[FirstIndexAt(run.games, f, peak[1].rating)])
                      /\ peak[1].rating >= ratings.currentRatings[f][1]
                /\ Cardinality(IndicesOf(run.games, f)) = 1 =>
                      /\ ratings.bestRatingGains[f] = Null
                      /\ ratings.worstRatingLosses[f] = Null

\* Three rapid games: the peak is reached on one day, reached again on the
\* next day, and the last game ends below it.
C19_Witness ==
    /\ run.pc = "done"
    /\ IndicesOf(run.games, "rapid") = {1, 2, 3}
    /\ SubjectRating(run.games[1]) = 1520
    /\ SubjectRating(run.games[2]) = 1520
    /\ DateOf(run.games[2]) = DateOf(run.games[1]) + 1
    /\ run.report[1].ratings.peakRatings.rapid = Some([rating |-> 1520, date |-> DateOf(run.games[1])])
    /\ run.report[1].ratings.currentRatings.rapid = Some(1490)

\* The categories with the most games of a log.
MostPlayed(games) ==
    {f \in FormatSet :
        \A g \in FormatSet :
            Cardinality(IndicesOf(games, g)) <= Cardinality(IndicesOf(games, f))}

\* C20: for a log with at least one game, the favorite category has the
\* maximum game count, and when several categories share the maximum the one
\* reported is the one met first in the game log.
C20_FavoriteIsFirstMostPlayed ==
    run.pc = "done" /\ run.games # <<>> =>
        LET favoriteFormat == run.report[1].intro.favoriteFormat
            first == CHOOSE i \in DOMAIN run.games :
                        /\ run.games[i].time_class \in MostPlayed(run.games)
                        /\ \A j \in DOMAIN run.games :
                              run.games[j].time_class \in MostPlayed(run.games) => i <= j
        IN  /\ favoriteFormat.gamesPlayed =
                  Cardinality(IndicesOf(run.games, run.games[first].time_class))
            /\ favoriteFormat.format = run.games[first].time_class

\* ---------------------------------------------------------------------------
\* Results, best win and worst loss of a category
\* ---------------------------------------------------------------------------

\* The subject's result code in a game, read off the side the subject played.
SubjectResult(game) ==
    IF ToLowerCase(game.white.username) = ToLowerCase(run.username)
    THEN game.white.result
    ELSE game.black.result

\* The positions of a category's games whose subject result is one of codes.
IndicesWith(games, f, codes) ==
    {i \in IndicesOf(games, f) : SubjectResult(games[i]) \in codes}

\* The sub-reason counters of a class, added up.
ReasonSum(counters, words) ==
    SumSeq([i \in 1..Len(words) |-> counters.by[words[i]]])

\* C21: for every eligible category each game is counted in exactly one of
\* wins, draws and losses by the subject's result code, so the three totals
\* add up to gamesPlayed; every game the subject drew is counted in
\* draws.total and not in losses.total; within each class the sub-reason
\* counters add up to at most the class total.
C21_GamesClassifiedByResultCode ==
    run.pc = "done" =>
        \A f \in DOMAIN run.report[1].formatSpecific :
            LET stats == run.report[1].formatSpecific[f]
                drawn == IndicesWith(run.games, f, DrawCodes)
                won == IndicesWith(run.games, f, {"win"})
            IN  /\ stats.results.wins.total + stats.results.draws.total
                      + stats.results.losses.total = stats.gamesPlayed
                /\ stats.results.wins.total = Cardinality(won)
                /\ stats.results.draws.total = Cardinality(drawn)
                /\ stats.results.losses.total =
                      Cardinality(IndicesOf(run.games, f) \ (won \cup drawn))
                /\ ReasonSum(stats.results.wins, WinLossWords) <= stats.results.wins.total
                /\ ReasonSum(stats.results.draws, DrawWords) <= stats.results.draws.total
                /\ ReasonSum(stats.results.losses, WinLossWords) <= stats.results.losses.total

\* The side of a game the subject did not play.
OpponentSide(game) ==
    IF ToLowerCase(game.white.username) = ToLowerCase(run.username)
    THEN game.black
    ELSE game.white

\* What the report says of a game it names as a best win or a worst loss.
ReferenceTo(game) ==
    [opponent |-> OpponentSide(game).username,
     opponentRating |-> OpponentSide(game).rating,
     date |-> DateOf(game),
     url |-> game.url]

\* The first position of S whose opponent's rating, times sign, is the
\* greatest: the highest-rated for sign 1, the lowest-rated for sign -1.
FirstExtreme(games, S, sign) ==
    CHOOSE i \in S :
        \A j \in S :
            \/ sign * OpponentSide(games[j]).rating < sign * OpponentSide(games[i]).rating
            \/ /\ OpponentSide(games[j]).rating = OpponentSide(games[i]).rating
               /\ i <= j

\* C22: for every eligible category bestWin is the first win against the
\* highest-rated opponent among the games counted in wins.total and worstLoss
\* the first loss against the lowest-rated opponent among the games counted
\* in losses.total; bestWin is null exactly when wins.total = 0 and worstLoss
\* is null exactly when losses.total = 0.
C22_BestWinAndWorstLoss ==
    run.pc = "done" =>
        \A f \in DOMAIN run.report[1].formatSpecific :
            LET stats == run.report[1].formatSpecific[f]
                won == IndicesWith(run.games, f, {"win"})
                lost == IndicesOf(run.games, f)
                            \ (won \cup IndicesWith(run.games, f, DrawCodes))
            IN  /\ stats.bestWin = Null <=> stats.results.wins.total = 0
                /\ stats.worstLoss = Null <=> stats.results.losses.total = 0
                /\ won # {} =>
                      stats.bestWin =
                          Some(ReferenceTo(run.games[FirstExtreme(run.games, won, 1)]))
                /\ lost # {} =>
                      stats.worstLoss =
                          Some(ReferenceTo(run.games[FirstExtreme(run.games, lost, -1)]))

\* ---------------------------------------------------------------------------
\* The best time and the best day to play
\* ---------------------------------------------------------------------------

\* Is label a bucket of five games or more whose win rate no other bucket of
\* five games or more exceeds, or the default when there is no such bucket?
IsBestBucket(label, buckets, default) ==
    LET enough == {b \in DOMAIN buckets : buckets[b].games >= 5}
    IN  IF enough = {} THEN label = default
        ELSE /\ label \in enough
             /\ \A b \in enough : buckets[b].winRate <= buckets[label].winRate

\* C23: whenever a time-of-day bucket has five games or more, bestTimeToPlay
\* is a bucket of five games or more whose win rate is maximal among those
\* buckets; the default label is reported only when no bucket has five games.
\* The same holds of bestDayToPlay over the buckets of the days of the week.
C23_BestBucketAmongFiveOrMore ==
    run.pc = "done" =>
        LET patterns == run.report[1].playingPatterns
        IN  /\ IsBestBucket(patterns.timeOfDay.bestTimeToPlay,
                            patterns.timeOfDay.buckets, "morning")
            /\ IsBestBucket(patterns.dayOfWeek.bestDayToPlay,
                            patterns.dayOfWeek.buckets, "monday")

\* ---------------------------------------------------------------------------
\* Openings
\* ---------------------------------------------------------------------------

\* The opening of a game as the report names it: the ECO tag, " - ", and the
\* last segment of the ECOUrl tag with its hyphens turned into spaces.
OpeningNameOf(game) ==
    <<IF game.pgn.eco = "" THEN "Unknown" ELSE game.pgn.eco, " - ",
      CASE game.pgn.ecoUrl = "" -> "Unknown"
        [] game.pgn.ecoUrl = "Sicilian-Defense" -> "Sicilian Defense"
        [] game.pgn.ecoUrl = "Kings-Pawn-Opening" -> "Kings Pawn Opening"
        [] game.pgn.ecoUrl = "English-Opening" -> "English Opening"
        [] game.pgn.ecoUrl = "French-Defense" -> "French Defense">>

\* The positions of the games the subject played with a colour.
IndicesAs(games, white) ==
    {i \in DOMAIN games :
        (ToLowerCase(games[i].white.username) = ToLowerCase(run.username)) = white}

\* The openings the subject played at least twice with a colour.
PlayedTwice(games, white) ==
    {name \in {OpeningNameOf(games[i]) : i \in IndicesAs(games, white)} :
        Cardinality({i \in IndicesAs(games, white) : OpeningNameOf(games[i]) = name}) >= 2}

\* A ranking of openings: at most 3 entries, each of an opening played twice
\* or more with the colour and with that opening's count, in win-rate order
\* (sign 1: non-increasing, sign -1: non-decreasing); the sentinel when no
\* opening was played twice.
IsOpeningRanking(list, games, white, sign) ==
    IF PlayedTwice(games, white) = {}
    THEN list = <<[name |-> <<"No openings recorded">>, count |-> 0,
                   winRate |-> 0, percentage |-> 0]>>
    ELSE /\ Len(list) \in 1..3
         /\ Len(list) = IF Cardinality(PlayedTwice(games, white)) < 3
                        THEN Cardinality(PlayedTwice(games, white)) ELSE 3
         /\ \A k \in 1..Len(list) :
               /\ list[k].name \in PlayedTwice(games, white)
               /\ list[k].count =
                     Cardinality({i \in IndicesAs(games, white) :
                                     OpeningNameOf(games[i]) = list[k].name})
               /\ list[k].count >= 2
         /\ \A k \in 1..Len(list) - 1 :
               sign * list[k].winRate >= sign * list[k + 1].winRate

\* C24: for each side, topOpenings and worstOpenings have at most 3 entries,
\* hold only openings the subject played at least twice on that side,
\* topOpenings in non-increasing and worstOpenings in non-decreasing win-rate
\* order; when no opening of the side was played twice, each list is exactly
\* the one sentinel entry with zeroed fields, never an empty list.
C24_OpeningRankings ==
    run.pc = "done" =>
        LET byColor == run.report[1].openings.byColor
        IN  /\ IsOpeningRanking(byColor.asWhite.topOpenings, run.games, TRUE, 1)
            /\ IsOpeningRanking(byColor.asWhite.worstOpenings, run.games, TRUE, -1)
            /\ IsOpeningRanking(byColor.asBlack.topOpenings, run.games, FALSE, 1)
            /\ IsOpeningRanking(byColor.asBlack.worstOpenings, run.games, FALSE, -1)

\* Four openings played twice each with the black pieces, with win rates of
\* 100, 50 and 0: the two lists of three differ, and the white side, with no
\* game, has the sentinel.
C24_Witness ==
    /\ run.pc = "done"
    /\ Cardinality(PlayedTwice(run.games, FALSE)) = 4
    /\ Len(run.report[1].openings.byColor.asBlack.topOpenings) = 3
    /\ run.report[1].openings.byColor.asBlack.topOpenings[1].winRate = 100
    /\ run.report[1].openings.byColor.asBlack.topOpenings[3].winRate = 0
    /\ run.report[1].openings.byColor.asBlack.worstOpenings[1].winRate = 0
    /\ run.report[1].openings.byColor.asBlack.worstOpenings[3].winRate = 50
    /\ run.report[1].openings.byColor.asWhite.topOpenings[1].count = 0

\* ---------------------------------------------------------------------------
\* Opponents
\* ---------------------------------------------------------------------------

\* The positions of the games against an opponent.
IndicesAgainst(games, name) ==
    {i \in DOMAIN games : OpponentSide(games[i]).username = name}

\* The games against an opponent that the subject won, and those that the
\* format-specific analyzer counts as draws.
WonAgainst(games, name) ==
    {i \in IndicesAgainst(games, name) : SubjectResult(games[i]) = "win"}

DrawnAgainst(games, name) ==
    {i \in IndicesAgainst(games, name) : ResultClass(games[i], run.username) = "draws"}

\* C25: in the per-opponent aggregate a game the subject drew increments
\* neither wins nor losses: for every opponent wins + losses = games minus the
\* games against that opponent that the format-specific analyzer classifies
\* as draws.  The aggregate is read off the overall mostPlayed ranking, whose
\* winRate and lossRate are round(100 wins / games) and round(100 losses /
\* games).
C25_DrawsInNeitherWinsNorLosses ==
    run.pc = "done" =>
        LET mostPlayed == run.report[1].opponents.overall.mostPlayed
        IN  \A k \in 1..Len(mostPlayed) :
                mostPlayed[k].games > 0 =>
                    LET name == mostPlayed[k].username
                        wins == Cardinality(WonAgainst(run.games, name))
                        draws == Cardinality(DrawnAgainst(run.games, name))
                    IN  /\ mostPlayed[k].games = Cardinality(IndicesAgainst(run.games, name))
                        /\ mostPlayed[k].winRate = RoundPct(wins, mostPlayed[k].games)
                        /\ mostPlayed[k].lossRate =
                              RoundPct(mostPlayed[k].games - wins - draws,
                                       mostPlayed[k].games)

\* The position of the last game against an opponent.
LastAgainst(games, name) ==
    CHOOSE i \in IndicesAgainst(games, name) :
        \A j \in IndicesAgainst(games, name) : games[j].end_time <= games[i].end_time

\* The names in a ranking, the sentinel of an empty ranking left out.
NamesIn(list) == {list[k].username : k \in {j \in 1..Len(list) : list[j].games > 0}}

\* C26: for every opponent the recorded rating is the rating in the last game
\* against that opponent and the recorded category is the category of that
\* same game, so an opponent is placed in the per-category rankings of the
\* category most recently played against them.
C26_OpponentRatingAndCategoryOfLastGame ==
    run.pc = "done" =>
        LET opponents == run.report[1].opponents
        IN  /\ \A k \in 1..Len(opponents.overall.mostPlayed) :
                  opponents.overall.mostPlayed[k].games > 0 =>
                      opponents.overall.mostPlayed[k].opponentRating =
                          OpponentSide(run.games[LastAgainst(run.games,
                              opponents.overall.mostPlayed[k].username)]).rating
            /\ \A f \in FormatSet :
                  \A name \in NamesIn(opponents.byFormat[f].mostPlayed) :
                      run.games[LastAgainst(run.games, name)].time_class = f

\* The three rankings of one scope, each of at most 3 entries: mostPlayed in
\* non-increasing game count, bestPerformance in non-increasing win rate,
\* worstPerformance in non-increasing loss rate.
AreOpponentRankings(scope) ==
    /\ Len(scope.mostPlayed) <= 3
    /\ Len(scope.bestPerformance) <= 3
    /\ Len(scope.worstPerformance) <= 3
    /\ \A k \in 1..Len(scope.mostPlayed) - 1 :
          scope.mostPlayed[k].games >= scope.mostPlayed[k + 1].games
    /\ \A k \in 1..Len(scope.bestPerformance) - 1 :
          scope.bestPerformance[k].winRate >= scope.bestPerformance[k + 1].winRate
    /\ \A k \in 1..Len(scope.worstPerformance) - 1 :
          scope.worstPerformance[k].lossRate >= scope.worstPerformance[k + 1].lossRate

\* C27: each opponent ranking has at most 3 entries and the rankings of a
\* category are ordered by the same keys as the overall ones; in particular
\* the byFormat worstPerformance list of every category is in non-increasing
\* loss rate.
C27_RankingsOrderedByTheirKeys ==
    run.pc = "done" =>
        /\ AreOpponentRankings(run.report[1].opponents.overall)
        /\ \A f \in FormatSet : AreOpponentRankings(run.report[1].opponents.byFormat[f])

\* ---------------------------------------------------------------------------
\* Accuracy
\* ---------------------------------------------------------------------------

\* The positions of the games of S that carry an accuracy for the subject's
\* side.
WithAccuracy(games, S) == {i \in S : games[i].accuracies # Null}

\* C28: the overall accuracy is non-null if and only if at least 3 games of
\* the log carry an accuracy for the subject's side, and each category's
\* accuracy is non-null if and only if at least 3 games of that category do;
\* hence a non-null category accuracy implies a non-null overall accuracy.
C28_AccuracyFromThreeSamples ==
    run.pc = "done" =>
        LET accuracy == run.report[1].performance.accuracy
        IN  /\ accuracy.overall # Null <=>
                  Cardinality(WithAccuracy(run.games, DOMAIN run.games)) >= 3
            /\ \A f \in FormatSet :
                  /\ accuracy.byFormat[f] # Null <=>
                        Cardinality(WithAccuracy(run.games, IndicesOf(run.games, f))) >= 3
                  /\ accuracy.byFormat[f] # Null => accuracy.overall # Null

\* ---------------------------------------------------------------------------
\* The cache under failed and concurrent ingestions
\* ---------------------------------------------------------------------------

\* C29: a failed ingestion leaves the cache unchanged: when the listing of the
\* archives failed during a request, the rest of the request stores nothing,
\* so a subject without an entry has none afterwards and a later request
\* within the TTL fetches the games again.
C29_FailedListingLeavesCacheUnchanged ==
    [][\A p \in Procs :
         (req[p].pc = "compute" /\ req[p].listFailed /\ req'[p].pc = "done")
         => cache' = cache
      ]_vars

\* C30: once the cache holds an unexpired entry with a computed report for a
\* subject, no step replaces it with an entry whose report is null, whatever
\* the interleaving of the requests for that subject.
C30_ReportNotReplacedByBareLog ==
    [][\A k \in DOMAIN cache :
         (cache[k].wrappedData # Null /\ now - cache[k].timestamp <= CACHE_DURATION)
         => (k \in DOMAIN cache' /\ cache'[k].wrappedData # Null)
      ]_vars

====
